---- MODULE Spec2Model ----
(***************************************************************************)
(* Model of ucm's focus chain (src/ucm/TabGroup.py, as wired by            *)
(* Application.build / Application.view_changed in src/ucm/__main__.py),   *)
(* of the list filter (ListView._evaluate / ListView.filter_data in        *)
(* src/ucm/Widgets.py, SshListView.filter_data in src/ucm/SshListView.py)  *)
(* and of the list widget (ListView, ListItem, ListViewListBox in          *)
(* src/ucm/Widgets.py).                                                    *)
(***************************************************************************)
EXTENDS Integers, Sequences, FiniteSets, TLC

VARIABLES
    \* --- TabGroupManager and the widgets it links (TabGroup.py)
    keys,           \* key order of TabGroupManager.groups (an OrderedDict)
    groups,         \* TabGroupManager.groups: name -> list of nodes
    current,        \* TabGroupNode.current of every node
    next,           \* TabGroupNode.next of every node
    frame_focus,    \* Frame.focus_position
    pile_focus,     \* Pile.focus_position of every view's pile
    cfocus,         \* focus position of every container (set_focus) or walker
    view,           \* the view shown (view_holder._w)
    raised,         \* exception the last call let escape ("" when none)
    logged,         \* the logging.error lines of the last focus_next
    lastOp,         \* which handler ran last
    firstReg,       \* history: names in the order a group was first stored
    \* --- ListView filter (Widgets.py)
    fetch_data,     \* what the record source returns
    filter_fields,  \* ListView.filter_fields
    filter_string,  \* the text handed to filter_data
    filtered,       \* the outcome of the last filter_data call
    \* --- SshListView.filter_data (SshListView.py, connection_manager.py)
    favorites_only, \* SshListView.favorites_only
    sort_by_recent, \* SshListView.sort_by_recent
    favorites,      \* ConnectionManager._favorites (connection ids)
    history,        \* ConnectionManager._history (entries, most recent first)
    ssh_filtered,   \* the outcome of the last SshListView.filter_data call
    \* --- the list widget (Widgets.py)
    walker,         \* ListView.walker: the ListItems, each by the dict it wraps
    walker_focus,   \* the walker's focus position
    selected,       \* ListView.selected: the dict of the selected ListItem
    signals,        \* is ListView.modified connected to the walker's signal
    last_time_clicked, \* ListViewListBox.last_time_clicked
    now,            \* time.time(), in tenths of a second
    error,          \* exception that ended the program ("" while it runs)
    notified,       \* history: record_selected calls of the last handler
    listOp,         \* which list handler ran last
    fired,          \* history: did the last handler call double_click_callback
    acted,          \* history: the dict double_click_callback acted on
    landed,         \* history: the dict of the item the last release landed on
    streak,         \* history: releases in a row that called back (2: two or more)
    \* --- the views of the application (__main__.py)
    views,          \* every view's list as it was when the view was last hidden
    \* --- the container-log dialog (DockerListView.py)
    paused,         \* log_state["paused"]
    log_lines,      \* log_state["log_lines"]
    log_process,    \* log_state["log_process"]: None, running or terminated
    alarm_handle,   \* log_state["alarm_handle"]
    alarms,         \* the alarms pending in the main loop
    alarm_count,    \* history: set_alarm_in calls so far
    log_open,       \* the dialog is shown
    logOp,          \* which handler of the dialog ran last
    \* --- ConnectionManager (connection_manager.py)
    _history,       \* self._history: the entries, a new connection first
    _favorites,     \* self._favorites: the list of connection ids
    history_file,   \* history.yml
    favorites_file, \* favorites.yml
    clock,          \* datetime.now()
    cmOp,           \* which method ran last
    arg,            \* history: the connection the last call was made with
    returned,       \* history: what the last toggle_favorite returned
    recordings,     \* history: the ids recorded since the history was empty
    truncated,      \* history: has an entry been cut off since then
    \* --- blocking connects (SshListView.py, DockerListView.py, SwarmListView.py)
    screen,         \* main_loop.screen: started or stopped
    blocked,        \* the handler waiting for its external command ("no": none)
    attempt,        \* which os.system call of the blocked handler runs
    rc,             \* the last return code
    uncaught,       \* the exception that left the handler ("" when none)
    terminal_integration, \* settings_manager.get_terminal_integration()
    connectOp,      \* which step of a connect ran last
    \* --- the Tmux view and its session (TmuxListView.py, services/tmux_service.py)
    tmux_windows,   \* the indexes of the windows of the tmux session
    tmux_active,    \* the index of the session's active window
    ucm_window,     \* the index of the window UCM runs in
    tmux_walker,    \* the dicts of the rows shown, in display order
    tmux_edit_text, \* filter_edit.edit_text of the Tmux view
    tmux_error,     \* what ended the program ("" while it runs)
    tmux_call,      \* history: the tmux command the last handler ran
    tmux_refreshed, \* history: the filter_and_set call of the last handler
    tmux_row,       \* history: the window whose row the last key was pressed on
    tmuxOp,         \* which handler ran last
    \* --- SettingsManager (settings_manager.py)
    _settings,      \* self._settings
    settings_file,  \* config.yml
    settings_raised, \* the exception the last call raised ("" when none)
    settings_mode,  \* history: the mode the last set_terminal_integration was given
    settingsOp,     \* which method ran last
    \* --- a key in the Docker view (DockerListView.py, Widgets.py, __main__.py)
    container_status, \* the docker daemon: container -> running / exited / removed
    show_all_containers, \* DockerListView.show_all_containers
    docker_walker,  \* the containers on the rows of the list
    docker_focus,   \* the walker's focus position
    loop_widget,    \* the dialogs over the frame, main_loop.widget last
    row_acted,      \* history: what keypress_callback did with the last key
    unhandled_key,  \* history: the key unhandled_input was given ("" when none)
    dockerOp        \* which handler ran last

tabVars == <<keys, groups, current, next, frame_focus, pile_focus, cfocus, view,
             raised, logged, lastOp, firstReg>>
filterVars == <<fetch_data, filter_fields, filter_string, filtered>>
sshVars == <<favorites_only, sort_by_recent, favorites, history, ssh_filtered>>
listVars == <<walker, walker_focus, selected, signals, last_time_clicked, now, error,
              notified, listOp, fired, acted, landed, streak>>
viewVars == <<views>>
logVars == <<paused, log_lines, log_process, alarm_handle, alarms, alarm_count, log_open,
             logOp>>
connVars == <<_history, _favorites, history_file, favorites_file, clock, cmOp, arg,
              returned, recordings, truncated>>
connectVars == <<screen, blocked, attempt, rc, uncaught, terminal_integration, connectOp>>
tmuxVars == <<tmux_windows, tmux_active, ucm_window, tmux_walker, tmux_edit_text, tmux_error,
              tmux_call, tmux_refreshed, tmux_row, tmuxOp>>
settingsVars == <<_settings, settings_file, settings_raised, settings_mode, settingsOp>>
dockerVars == <<container_status, show_all_containers, docker_walker, docker_focus, loop_widget,
                row_acted, unhandled_key, dockerOp>>
restVars == <<tmuxVars, settingsVars, dockerVars>>
otherVars == <<viewVars, logVars, connVars, connectVars, restVars>>
vars == <<keys, groups, current, next, frame_focus, pile_focus, cfocus, view,
          raised, logged, lastOp, firstReg,
          fetch_data, filter_fields, filter_string, filtered,
          favorites_only, sort_by_recent, favorites, history, ssh_filtered,
          walker, walker_focus, selected, signals, last_time_clicked, now, error,
          notified, listOp, fired, acted, landed, streak,
          views,
          paused, log_lines, log_process, alarm_handle, alarms, alarm_count, log_open,
          logOp,
          _history, _favorites, history_file, favorites_file, clock, cmOp, arg, returned,
          recordings, truncated,
          screen, blocked, attempt, rc, uncaught, terminal_integration, connectOp,
          tmux_windows, tmux_active, ucm_window, tmux_walker, tmux_edit_text, tmux_error,
          tmux_call, tmux_refreshed, tmux_row, tmuxOp,
          _settings, settings_file, settings_raised, settings_mode, settingsOp,
          container_status, show_all_containers, docker_walker, docker_focus, loop_widget,
          row_acted, unhandled_key, dockerOp>>

Range(s) == {s[i] : i \in DOMAIN s}

(***************************************************************************)
(* The widgets handed to TabGroupManager.add.  A widget sits at one place  *)
(* of the layout and is registered under the name of that place, as build  *)
(* and view_changed do.  Three views (A, B, C) supply the body widgets.    *)
(***************************************************************************)
NoneRef == "None"
TheFrame == "frame"

Nodes == 1..10
NoNode == 0

Widgets == {"tab_bar", "listA", "listB", "listC",
            "filterA", "filterB", "filterC", "action_content", "quit_button"}
Views == {"A", "B", "C"}
GroupNames == {"view_select", "list", "filters_select", "action_buttons"}
Piles == {"pileA", "pileB", "pileC"}
FrameParts == {"header", "body", "footer"}

\* hasattr(base_widget, "contents"): the Columns rows
HasContents(w) == w \in {"tab_bar", "filterA", "filterB", "filterC", "action_content"}

\* base_widget.contents, each item as the node it holds, or NoNode for an item
\* without set_current (a Text, a plain Edit)
Contents(w) ==
    CASE w = "tab_bar" -> <<1, 2>>
      [] w = "filterA" -> <<NoNode, 4>>
      [] w = "filterB" -> <<NoNode, NoNode>>
      [] w = "filterC" -> <<NoNode, 6>>
      [] w = "action_content" -> <<7, 8, 9>>
      [] OTHER -> <<>>

\* hasattr(base_widget, "set_current") of a widget without contents: the node it
\* is, or NoNode (listB is a ListView as Widgets.py defines it: no set_current;
\* quit_button is a TabGroupButton registered on its own)
SelfNode(w) ==
    CASE w = "listA" -> 3
      [] w = "listC" -> 5
      [] w = "quit_button" -> 10
      [] OTHER -> NoNode

\* hasattr(container, "set_focus") / hasattr(container, "walker"): the Columns
\* rows have set_focus, a ListView has a walker, a Button has neither
HasSetFocus(w) == HasContents(w)
HasWalker(w) == w \in {"listA", "listB", "listC"}

GroupOf(w) ==
    CASE w = "tab_bar" -> "view_select"
      [] w \in {"listA", "listB", "listC"} -> "list"
      [] w \in {"filterA", "filterB", "filterC"} -> "filters_select"
      [] OTHER -> "action_buttons"

FramePos(w) ==
    CASE w = "tab_bar" -> "header"
      [] w \in {"action_content", "quit_button"} -> "footer"
      [] OTHER -> "body"

PileOf(w) ==
    CASE w = "listA" -> "pileA"
      [] w = "listB" -> "pileB"
      [] w = "listC" -> "pileC"
      [] OTHER -> NoneRef

PilePos(w) == IF PileOf(w) = NoneRef THEN -1 ELSE 1

ListOf(v) == CASE v = "A" -> "listA" [] v = "B" -> "listB" [] OTHER -> "listC"
FilterOf(v) == CASE v = "A" -> "filterA" [] v = "B" -> "filterB" [] OTHER -> "filterC"

(***************************************************************************)
(* TabGroupFocus / TabGroupNode                                            *)
(***************************************************************************)
\* a node attribute still None (TabGroupNode.__init__)
NoneFocus ==
    [isNone |-> TRUE, frame |-> NoneRef, frame_pos |-> NoneRef,
     container |-> NoneRef, container_pos |-> -1, pile |-> NoneRef, pile_pos |-> 0]

TabGroupFocus(frame, frame_pos, container, container_pos, pile, pile_pos) ==
    [isNone |-> FALSE, frame |-> frame, frame_pos |-> frame_pos,
     container |-> container, container_pos |-> container_pos,
     pile |-> pile, pile_pos |-> pile_pos]

\* TabGroupNode.set_current on node n
set_current(cur, n, frame, frame_pos, container, container_pos, pile, pile_pos) ==
    [cur EXCEPT ![n] = TabGroupFocus(frame, frame_pos, container, container_pos, pile, pile_pos)]

(***************************************************************************)
(* TabGroupManager                                                         *)
(***************************************************************************)
RECURSIVE Concat(_, _)
Concat(ks, g) == IF ks = <<>> THEN <<>> ELSE g[Head(ks)] \o Concat(Tail(ks), g)

\* the chain: every group's nodes in the key order of groups
Chain == Concat(keys, groups)

\* self.groups[name] = nodes on the key order of an OrderedDict
OrderedDict_moved(ks, name) ==
    Append(SelectSeq(ks, LAMBDA k : k # name), name)
OrderedDict_setitem(ks, name) ==
    IF name \in Range(ks) THEN ks ELSE Append(ks, name)

\* the loop of relink: nodes[idx].next = nodes[idx + 1].current, IndexError passed
RECURSIVE relink_loop(_, _, _, _)
relink_loop(nodes, idx, cur, nxt) ==
    IF idx > Len(nodes) THEN nxt
    ELSE relink_loop(nodes, idx + 1, cur,
            IF idx + 1 <= Len(nodes)
            THEN [nxt EXCEPT ![nodes[idx]] = cur[nodes[idx + 1]]]
            ELSE nxt)

RECURSIVE relink_back(_, _, _, _)
relink_back(nodes, idx, cur, nxt) ==
    IF idx > Len(nodes) THEN nxt
    ELSE relink_back(nodes, idx + 1, cur,
            IF idx > 1
            THEN [nxt EXCEPT ![nodes[idx]] = cur[nodes[idx - 1]]]
            ELSE nxt)

relink_nowrap(ks, g, cur, nxt) ==
    LET nodes == Concat(ks, g)
    IN  [next |-> relink_loop(nodes, 1, cur, nxt),
         raised |-> IF nodes = <<>> THEN "IndexError" ELSE ""]

relink_reversed(ks, g, cur, nxt) ==
    LET nodes == Concat(ks, g)
        linked == relink_back(nodes, 1, cur, nxt)
    IN  IF nodes = <<>>
        THEN [next |-> linked, raised |-> "IndexError"]
        ELSE [next |-> [linked EXCEPT ![nodes[1]] = cur[nodes[Len(nodes)]]],
              raised |-> ""]

\* TabGroupManager.relink: the new next of every node, and the IndexError of
\* nodes[-1] on an empty list
relink(ks, g, cur, nxt) ==
    LET nodes == Concat(ks, g)
        linked == relink_loop(nodes, 1, cur, nxt)
    IN  IF nodes = <<>>
        THEN [next |-> linked, raised |-> "IndexError"]
        ELSE [next |-> [linked EXCEPT ![nodes[Len(nodes)]] = cur[nodes[1]]],
              raised |-> ""]

\* the manager and its nodes as one value, so that calls compose
Manager == [keys |-> keys, groups |-> groups, current |-> current, next |-> next,
            raised |-> "", stored |-> FALSE]

\* TabGroupManager.add(name, frame, frame_position, base_widget, pile, pile_pos)
add(m, name, frame, frame_position, base_widget, pile, pile_pos) ==
    IF HasContents(base_widget)
    THEN LET items == Contents(base_widget)
             nodes == SelectSeq(items, LAMBDA x : x # NoNode)
             cur == [n \in Nodes |->
                        IF \E idx \in DOMAIN items : items[idx] = n
                        THEN TabGroupFocus(frame, frame_position, base_widget,
                                (CHOOSE idx \in DOMAIN items : items[idx] = n) - 1,
                                pile, pile_pos)
                        ELSE m.current[n]]
             ks == OrderedDict_setitem(m.keys, name)
             g == [m.groups EXCEPT ![name] = nodes]
             r == relink(ks, g, cur, m.next)
         IN  [keys |-> ks, groups |-> g, current |-> cur, next |-> r.next,
              raised |-> r.raised, stored |-> TRUE]
    ELSE IF SelfNode(base_widget) # NoNode
    THEN LET n == SelfNode(base_widget)
             cur == set_current(m.current, n, frame, frame_position, base_widget, 0,
                                pile, pile_pos)
             ks == OrderedDict_setitem(m.keys, name)
             g == [m.groups EXCEPT ![name] = <<n>>]
             r == relink(ks, g, cur, m.next)
         IN  [keys |-> ks, groups |-> g, current |-> cur, next |-> r.next,
              raised |-> r.raised, stored |-> TRUE]
    ELSE [m EXCEPT !.raised = "", !.stored = FALSE]

\* the call as build and view_changed make it for widget w
add_widget(m, w) == add(m, GroupOf(w), TheFrame, FramePos(w), w, PileOf(w), PilePos(w))


(***************************************************************************)
(* TabGroupNode.focus_next and the keypress of the three node classes      *)
(***************************************************************************)
\* focus_next applied with d = self.next: the focus positions it leaves, the
\* errors it logs, and whether the container branch set a position
focus_next_no_container(d, ff, pf, cf) ==
    LET frameOk == d.frame # NoneRef /\ d.frame_pos # NoneRef
        pileOk == d.pile # NoneRef /\ d.pile_pos >= 0
    IN  [frame_focus |-> IF frameOk THEN d.frame_pos ELSE ff,
         pile_focus |-> IF pileOk THEN [pf EXCEPT ![d.pile] = d.pile_pos] ELSE pf,
         cfocus |-> cf,
         logged |-> <<>>,
         moved |-> TRUE]

focus_next(d, ff, pf, cf) ==
    LET frameOk == d.frame # NoneRef /\ d.frame_pos # NoneRef
        pileOk == d.pile # NoneRef /\ d.pile_pos >= 0
        contOk == d.container # NoneRef /\ d.container_pos >= 0
        capable == contOk /\ (HasSetFocus(d.container) \/ HasWalker(d.container))
    IN  [frame_focus |-> IF frameOk THEN d.frame_pos ELSE ff,
         pile_focus |-> IF pileOk THEN [pf EXCEPT ![d.pile] = d.pile_pos] ELSE pf,
         cfocus |-> IF capable THEN [cf EXCEPT ![d.container] = d.container_pos] ELSE cf,
         logged |-> (IF frameOk THEN <<>> ELSE <<"frame ref is not good">>)
                    \o (IF ~contOk THEN <<"container ref is not good">>
                        ELSE IF capable THEN <<>> ELSE <<"no handling enabled">>),
         moved |-> capable]

\* the focus positions pos are those that descriptor d names: the widget at d is
\* the one the frame, the pile and the container hand a key to
FocusIsAt(d, pos) ==
    /\ pos.frame_focus = d.frame_pos
    /\ (d.pile # NoneRef /\ d.pile_pos >= 0 => pos.pile_focus[d.pile] = d.pile_pos)
    /\ pos.cfocus[d.container] = d.container_pos

\* the focus positions of the screen
Positions == [frame_focus |-> frame_focus, pile_focus |-> pile_focus, cfocus |-> cfocus]

\* the chain node whose current is descriptor d (NoNode when there is none)
NodeOf(d) ==
    IF \E m \in Range(Chain) : current[m] = d
    THEN CHOOSE m \in Range(Chain) : current[m] = d
    ELSE NoNode

(***************************************************************************)
(* State after construction: TabGroupManager.__init__, TabGroupNode.__init__,*)
(* the Frame focused on its body, every container on its first selectable  *)
(* item (a pile's list row, a filter row's edit field).                    *)
(***************************************************************************)
InitTab ==
    /\ keys = <<>>
    /\ groups = [name \in GroupNames |-> <<>>]
    /\ current = [n \in Nodes |-> NoneFocus]
    /\ next = [n \in Nodes |-> NoneFocus]
    /\ view = "A"
    /\ frame_focus = "body"
    /\ pile_focus = [p \in Piles |-> 1]
    /\ cfocus = [w \in Widgets |->
                    IF w \in {"filterA", "filterB", "filterC"} THEN 1 ELSE 0]
    /\ raised = ""
    /\ logged = <<>>
    /\ lastOp = "init"
    /\ firstReg = <<>>

\* the manager's variables take the value a call returned
Install(m) ==
    /\ keys' = m.keys
    /\ groups' = m.groups
    /\ current' = m.current
    /\ next' = m.next
    /\ raised' = m.raised

\* one call of TabGroupManager.add for widget w; ff is the frame focus it leaves
AddCall(w, ff) ==
    LET m == add_widget(Manager, w)
    IN  /\ Install(m)
        /\ firstReg' = IF m.stored /\ GroupOf(w) \notin Range(firstReg)
                         THEN Append(firstReg, GroupOf(w)) ELSE firstReg
        /\ lastOp' = "add"
        /\ logged' = <<>>
        /\ frame_focus' = ff
        /\ UNCHANGED <<view, pile_focus, cfocus>>

AddMovesFocus(w) == AddCall(w, FramePos(w))

\* TabGroupManager.add as Application.build calls it
Add(w) == AddCall(w, frame_focus)

\* Application.view_changed(radio_button, state) with state true: the view is
\* swapped, filters_clear empties the filter text (whose change handler rebuilds
\* the list, walker.set_focus(0), and focuses the filter edit), and the two body
\* groups are registered again; an exception of the first add skips the second
ViewChanged(v) ==
    /\ v # view
    /\ view' = v
    /\ cfocus' = [cfocus EXCEPT ![ListOf(v)] = 0, ![FilterOf(v)] = 1]
    /\ LET m1 == add_widget(Manager, ListOf(v))
           m2 == IF m1.raised # "" THEN m1
                 ELSE add_widget([m1 EXCEPT !.stored = FALSE], FilterOf(v))
           reg1 == IF m1.stored /\ "list" \notin Range(firstReg)
                   THEN Append(firstReg, "list") ELSE firstReg
           reg2 == IF m1.raised = "" /\ m2.stored /\ "filters_select" \notin Range(reg1)
                   THEN Append(reg1, "filters_select") ELSE reg1
       IN  /\ Install(m2)
           /\ firstReg' = reg2
    /\ lastOp' = "view_changed"
    /\ logged' = <<>>
    /\ UNCHANGED <<frame_focus, pile_focus>>

\* keypress(size, "tab") of the chain node n that has focus: focus_next, then the
\* key goes to the base class and keypress returns None
Tab(n) ==
    /\ n \in Range(Chain)
    /\ FocusIsAt(current[n], Positions)
    /\ ~next[n].isNone
    /\ LET r == focus_next(next[n], frame_focus, pile_focus, cfocus)
       IN  /\ frame_focus' = r.frame_focus
           /\ pile_focus' = r.pile_focus
           /\ cfocus' = r.cfocus
           /\ logged' = r.logged
    /\ lastOp' = "tab"
    /\ raised' = ""
    /\ UNCHANGED <<keys, groups, current, next, view, firstReg>>



(***************************************************************************)
(* ListView._evaluate and ListView.filter_data (Widgets.py).  A text is a  *)
(* sequence of characters; a record maps every key to a value that is      *)
(* absent, a text or an integer (tmux's window index, the index ListItem   *)
(* writes into its record).                                                *)
(***************************************************************************)
MaxRecords == 2

Keys == {"name", "address", "index"}

Absent == [kind |-> "absent", v |-> <<>>]
Text(s) == [kind |-> "str", v |-> s]
IntZero == [kind |-> "int", v |-> <<"0">>]

NameValues == {Absent, Text(<<"a", " ", "B">>), Text(<<"A", "b">>)}
AddressValues == {Absent, Text(<<"b">>)}
IndexValues == {Absent, IntZero}

Records ==
    {[name |-> n, address |-> a, index |-> i] :
        n \in NameValues, a \in AddressValues, i \in IndexValues}

\* a filter text, or None
NoneText == [isNone |-> TRUE, s |-> <<>>]
Query(s) == [isNone |-> FALSE, s |-> s]
Queries ==
    {NoneText, Query(<<>>), Query(<<" ">>), Query(<<"a">>), Query(<<"a", "B">>),
     Query(<<"b">>), Query(<<"c">>)}

\* the filter_fields the views pass (SSH-like, tmux, none, one field)
FieldLists == {<<"name", "address">>, <<"name", "index">>, <<>>, <<"address">>}

\* what fetch_data returns: a list of records, or None
NoneData == [isNone |-> TRUE, items |-> <<>>]
Data(items) == [isNone |-> FALSE, items |-> items]
Sources ==
    {NoneData} \cup {Data(items) : items \in UNION {[1..n -> Records] : n \in 0..MaxRecords}}

\* str.lower
LowerChar(c) == CASE c = "A" -> "a" [] c = "B" -> "b" [] OTHER -> c
lower(s) == [i \in DOMAIN s |-> LowerChar(s[i])]

\* str.strip
IsSpace(c) == c = " "
RECURSIVE lstrip(_)
lstrip(s) == IF s # <<>> /\ IsSpace(Head(s)) THEN lstrip(Tail(s)) ELSE s
RECURSIVE rstrip(_)
rstrip(s) ==
    IF s # <<>> /\ IsSpace(s[Len(s)]) THEN rstrip(SubSeq(s, 1, Len(s) - 1)) ELSE s
strip(s) == rstrip(lstrip(s))

\* q in s, for texts
Contains(s, q) ==
    \E i \in 0..(Len(s) - Len(q)) : SubSeq(s, i + 1, i + Len(q)) = q

\* ListView._evaluate(filter_string, record) over self.filter_fields, in order:
\* "True", "False", or the AttributeError of .lower() on a value that is no text
RECURSIVE _evaluate(_, _, _)
_evaluate(fields, q, record) ==
    IF fields = <<>> THEN "False"
    ELSE LET value == record[Head(fields)]
         IN  IF value.kind = "absent" THEN _evaluate(Tail(fields), q, record)
             ELSE IF value.kind # "str" THEN "AttributeError"
             ELSE IF Contains(lower(value.v), lower(q)) THEN "True"
             ELSE _evaluate(Tail(fields), q, record)

\* list(filter(lambda k: self._evaluate(filter_string, k), data))
RECURSIVE filter_list(_, _, _, _)
filter_list(fields, q, items, acc) ==
    IF items = <<>> THEN [raised |-> "", isNone |-> FALSE, items |-> acc]
    ELSE LET e == _evaluate(fields, q, Head(items))
         IN  IF e = "AttributeError"
             THEN [raised |-> "AttributeError", isNone |-> FALSE, items |-> <<>>]
             ELSE filter_list(fields, q, Tail(items),
                              IF e = "True" THEN Append(acc, Head(items)) ELSE acc)

filter_data_no_strip(data, fields, text) ==
    IF text.isNone \/ text.s = <<>>
    THEN [raised |-> "", isNone |-> data.isNone, items |-> data.items]
    ELSE IF data.isNone
    THEN [raised |-> "TypeError", isNone |-> FALSE, items |-> <<>>]
    ELSE filter_list(fields, text.s, data.items, <<>>)

\* ListView.filter_data(filter_string), data being what self.fetch_data() returned
filter_data(data, fields, text) ==
    IF text.isNone \/ strip(text.s) = <<>>
    THEN [raised |-> "", isNone |-> data.isNone, items |-> data.items]
    ELSE IF data.isNone
    THEN [raised |-> "TypeError", isNone |-> FALSE, items |-> <<>>]
    ELSE filter_list(fields, text.s, data.items, <<>>)

\* a ListView on its record source: __init__ runs filter_and_set('')
InitFilter ==
    /\ fetch_data \in Sources
    /\ filter_fields \in FieldLists
    /\ filter_string = Query(<<>>)
    /\ filtered = filter_data(fetch_data, filter_fields, filter_string)

\* filter_and_set(filter_string) as far as filter_data
FilterData(q) ==
    /\ filter_string' = q
    /\ filtered' = filter_data(fetch_data, filter_fields, q)
    /\ UNCHANGED <<fetch_data, filter_fields>>

\* the list idle while the focus chain is exercised
FilterIdle ==
    /\ fetch_data = NoneData
    /\ filter_fields = <<>>
    /\ filter_string = Query(<<>>)
    /\ filtered = filter_data(fetch_data, filter_fields, filter_string)

(***************************************************************************)
(* SshListView.filter_data: the base filter, then the favourites-only      *)
(* filter and the recently-used sort (SshListView.py, connection_manager)  *)
(***************************************************************************)
MaxConns == 2

\* the filter_fields SshListView passes to ListView.__init__
SshFields == <<"category", "name", "user", "address">>

\* connections of ssh_connections: name and address, no category, no user
ConnNames == {Text(<<"a", " ", "B">>), Text(<<"A", "b">>), Text(<<"c">>)}
SshRecords ==
    {[category |-> Absent, name |-> n, user |-> Absent, address |-> Text(<<"b">>),
      index |-> Absent] : n \in ConnNames}
SshSources ==
    {NoneData} \cup {Data(items) : items \in UNION {[1..n -> SshRecords] : n \in 0..MaxConns}}

\* connection.get(key, '')
get(connection, key) ==
    IF connection[key].kind = "str" THEN connection[key].v ELSE <<>>

\* ConnectionManager._connection_id: f"{name}:{address}"
_connection_id(connection) ==
    get(connection, "name") \o <<":">> \o get(connection, "address")

\* ConnectionManager.is_favorite, on the favourites favs
is_favorite(favs, connection) == _connection_id(connection) \in favs

\* a history entry; last_used is an ISO timestamp, compared as text: modelled by
\* its rank in that order, 0 for the '' of an entry without last_used
Entry(n, rank) ==
    [name |-> Text(n), address |-> Text(<<"b">>), last_used |-> rank]

Favorites ==
    {{}, {<<"A", "b", ":", "b">>}, {<<"a", " ", "B", ":", "b">>, <<"c", ":", "b">>}}
Histories ==
    {<<>>,
     <<Entry(<<"A", "b">>, 1)>>,
     <<Entry(<<"c">>, 2), Entry(<<"a", " ", "B">>, 1)>>,
     <<Entry(<<"A", "b">>, 2), Entry(<<"c">>, 2), Entry(<<"A", "b">>, 0)>>}

\* history_map of SshListView.filter_data: the dict comprehension keeps, for a
\* connection id, the last entry of the history with that id
InHistoryMap(h, id) == \E i \in DOMAIN h : _connection_id(h[i]) = id
history_map(h, id) ==
    LET last == CHOOSE i \in DOMAIN h :
                    /\ _connection_id(h[i]) = id
                    /\ \A j \in DOMAIN h : _connection_id(h[j]) = id => j <= i
    IN  h[last].last_used

\* sort_key(conn): (1, last_used) with history, (0, "") without
sort_key(h, conn) ==
    IF InHistoryMap(h, _connection_id(conn))
    THEN <<1, history_map(h, _connection_id(conn))>>
    ELSE <<0, 0>>

\* tuple comparison
KeyLess(a, b) == a[1] < b[1] \/ (a[1] = b[1] /\ a[2] < b[2])

\* one step of a stable descending sort: x goes after every item whose key is
\* not smaller than its own
RECURSIVE InsertDescending(_, _, _)
InsertDescending(h, acc, x) ==
    IF acc = <<>> THEN <<x>>
    ELSE IF KeyLess(sort_key(h, Head(acc)), sort_key(h, x)) THEN <<x>> \o acc
    ELSE <<Head(acc)>> \o InsertDescending(h, Tail(acc), x)

\* one step of a stable ascending sort
RECURSIVE InsertAscending(_, _, _)
InsertAscending(h, acc, x) ==
    IF acc = <<>> THEN <<x>>
    ELSE IF KeyLess(sort_key(h, x), sort_key(h, Head(acc))) THEN <<x>> \o acc
    ELSE <<Head(acc)>> \o InsertAscending(h, Tail(acc), x)

RECURSIVE SortAscending(_, _, _)
SortAscending(h, items, acc) ==
    IF items = <<>> THEN acc
    ELSE SortAscending(h, Tail(items), InsertAscending(h, acc, Head(items)))

Reverse(s) == [i \in 1..Len(s) |-> s[Len(s) + 1 - i]]

\* an ascending sort turned round: equal keys come out in reverse order
sorted_then_reversed(h, items, acc) == Reverse(SortAscending(h, items, acc))

\* sorted(data, key=sort_key, reverse=True): descending, and stable (items with
\* equal keys keep their order)
RECURSIVE sorted_reverse(_, _, _)
sorted_reverse(h, items, acc) ==
    IF items = <<>> THEN acc
    ELSE sorted_reverse(h, Tail(items), InsertDescending(h, acc, Head(items)))

\* [conn for conn in data if self.conn_manager.is_favorite(conn)]
RECURSIVE only_favorites(_, _)
only_favorites(favs, items) ==
    IF items = <<>> THEN <<>>
    ELSE (IF is_favorite(favs, Head(items)) THEN <<Head(items)>> ELSE <<>>)
         \o only_favorites(favs, Tail(items))

\* SshListView.filter_data(filter_string)
SshListView_filter_data(data, fields, text, fav_only, by_recent, favs, h) ==
    LET base == filter_data(data, fields, text)
    IN  IF base.raised # "" THEN base
        ELSE IF base.isNone \/ base.items = <<>>
        THEN [raised |-> "", isNone |-> FALSE, items |-> <<>>]
        ELSE LET kept == IF fav_only THEN only_favorites(favs, base.items)
                         ELSE base.items
                 data2 == IF by_recent THEN sorted_reverse(h, kept, <<>>) ELSE kept
             IN  [raised |-> "", isNone |-> FALSE, items |-> data2]

\* SshListView.__init__: both modes off, then ListView.__init__'s filter_and_set('')
InitSsh ==
    /\ fetch_data \in SshSources
    /\ filter_fields = SshFields
    /\ filter_string = Query(<<>>)
    /\ filtered = filter_data(fetch_data, filter_fields, filter_string)
    /\ favorites_only = FALSE
    /\ sort_by_recent = FALSE
    /\ favorites \in Favorites
    /\ history \in Histories
    /\ ssh_filtered =
           SshListView_filter_data(fetch_data, filter_fields, filter_string,
                                   FALSE, FALSE, favorites, history)

\* filter_data as filter_and_set calls it, with the modes fav_only and by_recent
SshFilter(q, fav_only, by_recent) ==
    /\ filter_string' = q
    /\ favorites_only' = fav_only
    /\ sort_by_recent' = by_recent
    /\ filtered' = filter_data(fetch_data, filter_fields, q)
    /\ ssh_filtered' =
           SshListView_filter_data(fetch_data, filter_fields, q,
                                   fav_only, by_recent, favorites, history)
    /\ UNCHANGED <<fetch_data, filter_fields, favorites, history>>

\* filter_action: the text of the filter field changed
SshFilterAction(q) == SshFilter(q, favorites_only, sort_by_recent)

\* keypress_callback, key "F": toggle favourites-only, filter again
SshToggleFavoritesOnly == SshFilter(filter_string, ~favorites_only, sort_by_recent)

\* keypress_callback, key "r": toggle the recently-used sort, filter again
SshToggleRecent == SshFilter(filter_string, favorites_only, ~sort_by_recent)

\* no SSH view while the other parts are exercised
SshIdle ==
    /\ favorites_only = FALSE
    /\ sort_by_recent = FALSE
    /\ favorites = {}
    /\ history = <<>>
    /\ ssh_filtered = [raised |-> "", isNone |-> FALSE, items |-> <<>>]

(***************************************************************************)
(* The list widget: ListView with its walker, ListItem, ListViewListBox.   *)
(* The dicts of the record source are objects: ListItem writes the index   *)
(* into the dict it wraps, and ListView.selected leads to that dict.       *)
(***************************************************************************)
MaxItems == 2
MaxElapsed == 10

\* time.time() when the list is built, in tenths of a second
StartTime == 100
\* the 0.5 of mouse_event, in tenths of a second
DoubleClickTime == 5

\* self.selected = None
NoItem == 0

IntValue(n) == [kind |-> "int", v |-> n]

\* the dicts fetch_data returns, by identity
ItemName(i) == IF i % 2 = 1 THEN Text(<<"a", " ", "B">>) ELSE Text(<<"A", "b">>)
ListRecord(i) == [id |-> i, name |-> ItemName(i), address |-> Absent, index |-> Absent]
ListSources ==
    {NoneData} \cup {Data([i \in 1..n |-> ListRecord(i)]) : n \in 0..MaxItems}
ListQueries == {Query(<<>>), Query(<<"a">>), Query(<<"a", "B">>), Query(<<"c">>)}
ListFieldLists == {<<"name", "address">>, <<"name", "index">>}

\* the list widget's fields, as the handlers below pass them along
ListState ==
    [walker |-> walker, walker_focus |-> walker_focus, selected |-> selected,
     signals |-> signals, notified |-> <<>>, items |-> fetch_data.items]

\* walker.get_focus(): the focused ListItem, None on an empty walker
get_focus(st) ==
    IF st.walker = <<>> THEN NoItem ELSE st.walker[st.walker_focus + 1]

\* ListView.record_selected(list_item), reached through the record_selected signal
record_selected(st, list_item) ==
    [st EXCEPT !.selected = list_item,
               !.notified = Append(@, [item |-> list_item, walker |-> st.walker])]

\* ListView.modified
modified(st) ==
    LET list_item == get_focus(st)
    IN  IF list_item # NoItem THEN record_selected(st, list_item) ELSE st

\* the walker's "modified" signal: ListView.modified runs while it is connected
emit_modified(st) == IF st.signals THEN modified(st) ELSE st

\* walker.set_focus(position): an empty walker keeps focus 0; "modified" is emitted
set_focus(st, position) ==
    emit_modified([st EXCEPT !.walker_focus = IF st.walker = <<>> THEN 0 ELSE position])

\* a ListItem that leaves the dict alone
ListItem_keeps_dict(items, item_data, index) == items

\* ListItem.__init__: self.item_data['index'] = index, written into the dict
ListItem(items, item_data, index) ==
    [k \in DOMAIN items |->
        IF items[k].id = item_data.id THEN [items[k] EXCEPT !.index = IntValue(index)]
        ELSE items[k]]

\* [ListItem(item_data, index=idx, ...) for idx, item_data in enumerate(data)]
RECURSIVE ListItems(_, _, _)
ListItems(items, data, idx) ==
    IF idx >= Len(data) THEN items
    ELSE ListItems(ListItem(items, data[idx + 1], idx), data, idx + 1)

\* _set_data with the statements in another order: focus first, then the rebuild
_set_data_focus_first(st, data) ==
    LET s0 == set_focus(st, 0)
        s1 == [s0 EXCEPT !.signals = FALSE]
        s2 == emit_modified([s1 EXCEPT !.walker = <<>>, !.walker_focus = 0])
        s3 == emit_modified([s2 EXCEPT !.walker = [k \in 1..Len(data) |-> data[k].id],
                                       !.items = ListItems(s2.items, data, 0)])
    IN  [s3 EXCEPT !.signals = TRUE]

\* _set_data without its last statement
_set_data_no_focus(st, data) ==
    LET s1 == [st EXCEPT !.signals = FALSE]
        s2 == emit_modified([s1 EXCEPT !.walker = <<>>, !.walker_focus = 0])
        s3 == emit_modified([s2 EXCEPT !.walker = [k \in 1..Len(data) |-> data[k].id],
                                       !.items = ListItems(s2.items, data, 0)])
    IN  [s3 EXCEPT !.signals = TRUE]

\* ListView._set_data(data), data a list (None already replaced by []):
\* disconnect, walker.clear(), walker.extend(ListItems), connect, set_focus(0)
_set_data(st, data) ==
    LET s1 == [st EXCEPT !.signals = FALSE]
        s2 == emit_modified([s1 EXCEPT !.walker = <<>>, !.walker_focus = 0])
        s3 == emit_modified([s2 EXCEPT !.walker = [k \in 1..Len(data) |-> data[k].id],
                                       !.items = ListItems(s2.items, data, 0)])
        s4 == [s3 EXCEPT !.signals = TRUE]
    IN  set_focus(s4, 0)

\* the widget's fields after a handler
Install_list(st) ==
    /\ walker' = st.walker
    /\ walker_focus' = st.walker_focus
    /\ selected' = st.selected
    /\ signals' = st.signals
    /\ notified' = st.notified
    /\ fetch_data' = [fetch_data EXCEPT !.items = st.items]

\* ListView.__init__ on its record source: nothing selected, the list box built
\* now, then filter_and_set('')
InitList ==
    /\ \E src \in ListSources :
         LET data == filter_data(src, <<>>, Query(<<>>))
             st == _set_data([walker |-> <<>>, walker_focus |-> 0, selected |-> NoItem,
                              signals |-> FALSE, notified |-> <<>>, items |-> src.items],
                             data.items)
         IN  /\ fetch_data = [src EXCEPT !.items = st.items]
             /\ filtered = data
             /\ walker = st.walker
             /\ walker_focus = st.walker_focus
             /\ selected = st.selected
             /\ signals = st.signals
             /\ notified = st.notified
    /\ filter_fields \in ListFieldLists
    /\ filter_string = Query(<<>>)
    /\ now = StartTime
    /\ last_time_clicked = StartTime
    /\ error = ""
    /\ listOp = "init"
    /\ fired = FALSE
    /\ acted = NoItem
    /\ landed = NoItem
    /\ streak = 0

\* filter_action(edit, text_input) -> filter_and_set(text_input): filter_data,
\* then _set_data; an exception of filter_data ends the program. Last,
\* filter_columns.set_focus(1) keeps the filter row's focus on the edit field
SetQuery(q) ==
    /\ error = ""
    /\ LET data == filter_data(fetch_data, filter_fields, q)
       IN  /\ filter_string' = q
           /\ filtered' = data
           /\ IF data.raised # ""
              THEN /\ error' = data.raised
                   /\ notified' = <<>>
                   /\ UNCHANGED <<walker, walker_focus, selected, signals, fetch_data>>
              ELSE /\ Install_list(_set_data(ListState, data.items))
                   /\ error' = ""
    /\ listOp' = "set_query"
    /\ fired' = FALSE
    /\ acted' = NoItem
    /\ cfocus' = [cfocus EXCEPT ![FilterOf(view)] = 1]
    /\ UNCHANGED <<filter_fields, last_time_clicked, now, landed, streak>>

\* ListViewListBox.mouse_event, a button press on item i: not a release, so the
\* list box handles it and moves the walker's focus to the item
MousePress(i) ==
    /\ error = ""
    /\ i \in 1..Len(walker)
    /\ Install_list(set_focus(ListState, i - 1))
    /\ listOp' = "press"
    /\ fired' = FALSE
    /\ acted' = NoItem
    /\ UNCHANGED <<filter_fields, filter_string, filtered, last_time_clicked, now,
                   error, landed, streak>>

\* the double_click_callback of the views (SshListView, TmuxListView, ...):
\* acts on self.selected.item_data; None has no item_data
double_click_callback(sel) ==
    IF sel = NoItem THEN [raised |-> "AttributeError", record |-> NoItem]
    ELSE [raised |-> "", record |-> sel]

\* a mouse_event that forgets the time of a release that fired
mouse_event_keeps_time(last, t, sel) ==
    IF last # 0 /\ t - last < DoubleClickTime
    THEN LET cb == double_click_callback(sel)
         IN  [fired |-> TRUE, raised |-> cb.raised, record |-> cb.record,
              last_time_clicked |-> last]
    ELSE [fired |-> FALSE, raised |-> "", record |-> NoItem, last_time_clicked |-> t]

\* a mouse_event whose window includes its end
mouse_event_inclusive(last, t, sel) ==
    IF last # 0 /\ t - last <= DoubleClickTime
    THEN LET cb == double_click_callback(sel)
         IN  [fired |-> TRUE, raised |-> cb.raised, record |-> cb.record,
              last_time_clicked |-> IF cb.raised = "" THEN t ELSE last]
    ELSE [fired |-> FALSE, raised |-> "", record |-> NoItem, last_time_clicked |-> t]

\* ListViewListBox.mouse_event, event 'mouse release' at time t: the callback
\* runs if the last release is less than 0.5 s back; then last_time_clicked = now
\* (not reached when the callback raised)
mouse_event(last, t, sel) ==
    IF last # 0 /\ t - last < DoubleClickTime
    THEN LET cb == double_click_callback(sel)
         IN  [fired |-> TRUE, raised |-> cb.raised, record |-> cb.record,
              last_time_clicked |-> IF cb.raised = "" THEN t ELSE last]
    ELSE [fired |-> FALSE, raised |-> "", record |-> NoItem, last_time_clicked |-> t]

\* a release event over item j of the list (0: over no item)
MouseRelease(j) ==
    /\ error = ""
    /\ j \in 0..Len(walker)
    /\ LET r == mouse_event(last_time_clicked, now, selected)
       IN  /\ fired' = r.fired
           /\ acted' = r.record
           /\ error' = r.raised
           /\ last_time_clicked' = r.last_time_clicked
    /\ landed' = IF j = 0 THEN NoItem ELSE walker[j]
    /\ streak' = IF ~fired' THEN 0 ELSE IF streak < 2 THEN streak + 1 ELSE streak
    /\ listOp' = "release"
    /\ notified' = <<>>
    /\ UNCHANGED <<filterVars, walker, walker_focus, selected, signals, now>>

\* time passes: a tenth of a second
Tick ==
    /\ error = ""
    /\ now < StartTime + MaxElapsed
    /\ now' = now + 1
    /\ UNCHANGED <<filterVars, walker, walker_focus, selected, signals,
                   last_time_clicked, error, notified, listOp, fired, acted, landed, streak>>

\* no list while the other parts are exercised
ListIdle ==
    /\ walker = <<>>
    /\ walker_focus = 0
    /\ selected = NoItem
    /\ signals = TRUE
    /\ last_time_clicked = StartTime
    /\ now = StartTime
    /\ error = ""
    /\ notified = <<>>
    /\ listOp = "init"
    /\ fired = FALSE
    /\ acted = NoItem
    /\ landed = NoItem
    /\ streak = 0

(***************************************************************************)
(* The views (Application.views in __main__.py, View and                   *)
(* ListView.filters_clear in Widgets.py).  Every view owns a ListView: the *)
(* list variables are the list of the view shown, and views[v] is the list *)
(* of view v as it was when v was last hidden.                             *)
(***************************************************************************)
\* View.master_pile: the header text, the list at index 1, a divider and the
\* filter row at index 3
ListRow == 1
FilterRow == 3

\* the list of the view shown, as one value
ShownList ==
    [walker |-> walker, walker_focus |-> walker_focus, selected |-> selected,
     signals |-> signals, fetch_data |-> fetch_data, filter_string |-> filter_string,
     filtered |-> filtered]

\* a filters_clear that empties the text without telling the list
filters_clear_silent(lv, fields) ==
    [walker |-> lv.walker, walker_focus |-> lv.walker_focus, selected |-> lv.selected,
     signals |-> lv.signals, fetch_data |-> lv.fetch_data,
     filter_string |-> Query(<<>>), filtered |-> lv.filtered,
     notified |-> <<>>, column |-> 1]

\* ListView.filters_clear on the list lv: filter_edit.edit_text = "" makes the
\* Edit emit "change", so filter_action(edit, "") runs filter_and_set("") and
\* filter_columns.set_focus(1); then filter_columns.set_focus(1) once more
filters_clear(lv, fields) ==
    LET data == filter_data(lv.fetch_data, fields, Query(<<>>))
        st == _set_data([walker |-> lv.walker, walker_focus |-> lv.walker_focus,
                         selected |-> lv.selected, signals |-> lv.signals,
                         notified |-> <<>>, items |-> lv.fetch_data.items],
                        data.items)
    IN  [walker |-> st.walker, walker_focus |-> st.walker_focus, selected |-> st.selected,
         signals |-> st.signals, fetch_data |-> [lv.fetch_data EXCEPT !.items = st.items],
         filter_string |-> Query(<<>>), filtered |-> data,
         notified |-> st.notified, column |-> 1]

\* TabGroupManager() before any add
EmptyManager ==
    [keys |-> <<>>, groups |-> [name \in GroupNames |-> <<>>],
     current |-> [n \in Nodes |-> NoneFocus], next |-> [n \in Nodes |-> NoneFocus],
     raised |-> "", stored |-> FALSE]

\* Application.build: its four calls of add, the first view's widgets in the body
build ==
    add_widget(add_widget(add_widget(add_widget(EmptyManager, "tab_bar"), "listA"),
                          "filterA"), "action_content")

\* the application as build leaves it: every view's list built on a record
\* source of MaxItems records, the first view shown, the frame focused on its body
InitViews ==
    /\ keys = build.keys
    /\ groups = build.groups
    /\ current = build.current
    /\ next = build.next
    /\ raised = ""
    /\ view = "A"
    /\ frame_focus = "body"
    /\ pile_focus = [p \in Piles |-> ListRow]
    /\ cfocus = [w \in Widgets |->
                    IF w \in {"filterA", "filterB", "filterC"} THEN 1 ELSE 0]
    /\ logged = <<>>
    /\ lastOp = "init"
    /\ firstReg = <<"view_select", "list", "filters_select", "action_buttons">>
    /\ InitList
    /\ Len(fetch_data.items) = MaxItems
    /\ filter_fields = <<"name", "address">>
    /\ views = [v \in Views |-> ShownList]

\* a button press on the filter field of the view shown: the frame focuses its
\* body, the view's pile the filter row, the filter row the edit field
PressFilterField ==
    /\ error = ""
    /\ frame_focus' = "body"
    /\ pile_focus' = [pile_focus EXCEPT ![PileOf(ListOf(view))] = FilterRow]
    /\ cfocus' = [cfocus EXCEPT ![FilterOf(view)] = 1]
    /\ lastOp' = "press"
    /\ logged' = <<>>
    /\ UNCHANGED <<keys, groups, current, next, view, raised, firstReg>>

\* a key typed into the filter field, which has the focus: filter_action
TypeQuery(q) ==
    /\ frame_focus = "body"
    /\ pile_focus[PileOf(ListOf(view))] = FilterRow
    /\ cfocus[FilterOf(view)] = 1
    /\ SetQuery(q)

\* a button press on item i of the list shown: the frame focuses its body, the
\* view's pile the list, the list box the item
PressListItem(i) ==
    /\ MousePress(i)
    /\ frame_focus' = "body"
    /\ pile_focus' = [pile_focus EXCEPT ![PileOf(ListOf(view))] = ListRow]
    /\ UNCHANGED <<keys, groups, current, next, view, cfocus, raised, logged, lastOp,
                   firstReg>>

\* the radio button of view v changes to selected (the tab bar, in the frame's
\* header, has the focus): Application.view_changed shows v, clears v's filter
\* and registers v's list and filter row; the list that was shown is kept as is
SelectView(v) ==
    /\ error = ""
    /\ frame_focus = "header"
    /\ ViewChanged(v)
    /\ LET lv == filters_clear(views[v], filter_fields)
       IN  /\ walker' = lv.walker
           /\ walker_focus' = lv.walker_focus
           /\ selected' = lv.selected
           /\ signals' = lv.signals
           /\ fetch_data' = lv.fetch_data
           /\ filter_string' = lv.filter_string
           /\ filtered' = lv.filtered
           /\ notified' = lv.notified
    /\ views' = [views EXCEPT ![view] = ShownList]
    /\ listOp' = "filters_clear"
    /\ fired' = FALSE
    /\ acted' = NoItem
    /\ UNCHANGED <<filter_fields, last_time_clicked, now, error, landed, streak>>

\* no view is hidden while the other parts are exercised
ViewsIdle == views = <<>>

(***************************************************************************)
(* The container-log dialog (DockerListView._show_logs_dialog): log_state, *)
(* its three closures start_log_stream, poll_logs and toggle_pause, the    *)
(* Apply button and the main loop's alarms.  An alarm handle is the number *)
(* of the set_alarm_in call that returned it; 0 stands for None.           *)
(***************************************************************************)
MaxAlarms == 5

NoHandle == 0
NoProcess == "None"

\* the line count a dialog starts with
DefaultLines == 100
\* texts of the line-count field
LineCounts == {<<>>, <<"a">>, <<"0">>, <<"-", "1">>, <<" ", "7">>, <<"5", "0">>}

\* the decimal digits, and the value of one
DigitChars == <<"0", "1", "2", "3", "4", "5", "6", "7", "8", "9">>
IsDigit(c) == c \in Range(DigitChars)
DigitValue(c) == (CHOOSE i \in DOMAIN DigitChars : DigitChars[i] = c) - 1

\* the number a sequence of digits writes
RECURSIVE DecimalValue(_, _)
DecimalValue(s, acc) ==
    IF s = <<>> THEN acc ELSE DecimalValue(Tail(s), 10 * acc + DigitValue(Head(s)))

\* int(s) of a text: an optional sign and digits; anything else is a ValueError
int(s) ==
    LET signed == s # <<>> /\ Head(s) \in {"-", "+"}
        digits == IF signed THEN Tail(s) ELSE s
    IN  IF digits = <<>> \/ \E i \in DOMAIN digits : ~IsDigit(digits[i])
        THEN [raised |-> "ValueError", v |-> 0]
        ELSE [raised |-> "",
              v |-> IF signed /\ Head(s) = "-" THEN 0 - DecimalValue(digits, 0)
                    ELSE DecimalValue(digits, 0)]

\* log_state, and the alarms the main loop holds, as one value
LogState ==
    [paused |-> paused, log_lines |-> log_lines, log_process |-> log_process,
     alarm_handle |-> alarm_handle, alarms |-> alarms, alarm_count |-> alarm_count]

\* main_loop.set_alarm_in(0.5, poll_logs): a new handle, pending in the loop
set_alarm_in(ls) ==
    [ls EXCEPT !.alarm_count = @ + 1,
               !.alarms = @ \cup {ls.alarm_count + 1},
               !.alarm_handle = ls.alarm_count + 1]

\* main_loop.remove_alarm(handle): a handle that is not pending is left alone
remove_alarm(ls, handle) == [ls EXCEPT !.alarms = @ \ {handle}]

\* a poll_logs that schedules the next poll whether paused or not
poll_logs_while_paused(ls) ==
    IF ls.log_process = NoProcess THEN ls ELSE set_alarm_in(ls)

\* poll_logs: nothing when paused, nothing without a process; else a line is
\* read if there is one, and the next poll is scheduled
poll_logs(ls) ==
    IF ls.paused THEN ls
    ELSE IF ls.log_process = NoProcess THEN ls
    ELSE set_alarm_in(ls)

\* start_log_stream; ok: docker_service.logs returned a process (it raised
\* otherwise, and log_process keeps the process that was terminated)
start_log_stream(ls, ok) ==
    LET s1 == IF ls.log_process # NoProcess
              THEN [ls EXCEPT !.log_process = "terminated"] ELSE ls
        s2 == IF s1.alarm_handle # NoHandle THEN remove_alarm(s1, s1.alarm_handle) ELSE s1
    IN  IF ok THEN poll_logs([s2 EXCEPT !.log_process = "running"]) ELSE s2

\* toggle_pause: pausing cancels the pending alarm and forgets its handle,
\* resuming calls poll_logs
toggle_pause(ls) ==
    LET s1 == [ls EXCEPT !.paused = ~ls.paused]
    IN  IF s1.paused
        THEN IF s1.alarm_handle # NoHandle
             THEN [remove_alarm(s1, s1.alarm_handle) EXCEPT !.alarm_handle = NoHandle]
             ELSE s1
        ELSE poll_logs(s1)

\* an exit_callback that terminates the process and leaves the alarm pending
exit_callback_keeps_alarm(ls) ==
    IF ls.log_process # NoProcess THEN [ls EXCEPT !.log_process = "terminated"] ELSE ls

\* exit_callback: the alarm is removed and the process terminated
exit_callback(ls) ==
    LET s1 == IF ls.alarm_handle # NoHandle THEN remove_alarm(ls, ls.alarm_handle) ELSE ls
    IN  IF s1.log_process # NoProcess THEN [s1 EXCEPT !.log_process = "terminated"] ELSE s1

\* update_line_count, the Apply button: int() of a text that is no number
\* raises ValueError, which is logged; a number below 1 counts as 1; the
\* stream is started again
update_line_count(ls, text, ok) ==
    LET parsed == int(strip(text))
        new_count == IF parsed.v < 1 THEN 1 ELSE parsed.v
    IN  IF parsed.raised # "" THEN ls
        ELSE start_log_stream([ls EXCEPT !.log_lines = new_count], ok)

\* log_state takes the value a closure left
Install_log(ls) ==
    /\ paused' = ls.paused
    /\ log_lines' = ls.log_lines
    /\ log_process' = ls.log_process
    /\ alarm_handle' = ls.alarm_handle
    /\ alarms' = ls.alarms
    /\ alarm_count' = ls.alarm_count

\* _show_logs_dialog: log_state as created, then start_log_stream()
InitLog ==
    \E ok \in BOOLEAN :
        LET ls == start_log_stream([paused |-> FALSE, log_lines |-> DefaultLines,
                                    log_process |-> NoProcess,
                                    alarm_handle |-> NoHandle, alarms |-> {},
                                    alarm_count |-> 0], ok)
        IN  /\ paused = ls.paused
            /\ log_lines = ls.log_lines
            /\ log_process = ls.log_process
            /\ alarm_handle = ls.alarm_handle
            /\ alarms = ls.alarms
            /\ alarm_count = ls.alarm_count
            /\ log_open = TRUE
            /\ logOp = "show"

\* the Pause/Resume button
TogglePause ==
    /\ log_open
    /\ alarm_count < MaxAlarms
    /\ Install_log(toggle_pause(LogState))
    /\ logOp' = IF paused THEN "resume" ELSE "pause"
    /\ UNCHANGED log_open

\* the Apply button with a text in the line-count field
Apply(text, ok) ==
    /\ log_open
    /\ alarm_count < MaxAlarms
    /\ Install_log(update_line_count(LogState, text, ok))
    /\ logOp' = "apply"
    /\ UNCHANGED log_open

\* the main loop runs a pending alarm: it leaves the loop's list, poll_logs runs
AlarmFires(h) ==
    /\ h \in alarms
    /\ alarm_count < MaxAlarms
    /\ Install_log(poll_logs(remove_alarm(LogState, h)))
    /\ logOp' = "poll"
    /\ UNCHANGED log_open

\* the Close button: exit_callback
CloseLog ==
    /\ log_open
    /\ Install_log(exit_callback(LogState))
    /\ log_open' = FALSE
    /\ logOp' = "close"

\* no log dialog while the other parts are exercised
LogIdle ==
    /\ paused = FALSE
    /\ log_lines = DefaultLines
    /\ log_process = NoProcess
    /\ alarm_handle = NoHandle
    /\ alarms = {}
    /\ alarm_count = 0
    /\ log_open = FALSE
    /\ logOp = "none"

(***************************************************************************)
(* ConnectionManager (connection_manager.py): the history and the          *)
(* favourites, kept in memory and written to history.yml and favorites.yml *)
(* with yaml.safe_dump after every change.  A YAML file is the sequence of *)
(* its items; a scalar is what the emitter wrote: plain or quoted, and its *)
(* characters.                                                             *)
(***************************************************************************)
HistoryLimit == 100
MaxCalls == 2

\* datetime.now().isoformat(): the date, "T", and the time of day; the clock's
\* reading is written with three digits
Pad3(n) ==
    <<DigitChars[((n \div 100) % 10) + 1], DigitChars[((n \div 10) % 10) + 1],
      DigitChars[(n % 10) + 1]>>
DatePart == <<"2", "0", "2", "6", "-", "0", "1", "-", "0", "1">>
isoformat(t) == DatePart \o <<"T">> \o Pad3(t)

\* str(n) of an integer
RECURSIVE DigitsOf(_)
DigitsOf(n) ==
    IF n < 10 THEN <<DigitChars[n + 1]>> ELSE Append(DigitsOf(n \div 10), DigitChars[(n % 10) + 1])
str(n) == IF n < 0 THEN <<"-">> \o DigitsOf(0 - n) ELSE DigitsOf(n)

\* a connection of the configuration: name and address, no user, no category
Connection(name, address) ==
    [name |-> Text(name), address |-> Text(address), user |-> Absent, category |-> Absent]
Host(i) == Connection(<<"h">> \o Pad3(i), <<"x">>)
\* a connection whose name is a number, and two whose names and addresses differ
\* though name + ":" + address is the same text
Numbered == Connection(<<"7">>, <<"1">>)
ColonInName == Connection(<<"a", ":", "b">>, <<"c">>)
ColonInAddress == Connection(<<"a">>, <<"b", ":", "c">>)

\* the history entry record_connection builds for a connection
history_entry(connection, timestamp) ==
    [name |-> Text(get(connection, "name")),
     address |-> Text(get(connection, "address")),
     last_used |-> Text(timestamp),
     use_count |-> IntValue(1),
     user |-> connection.user,
     category |-> connection.category]

\* entry.get("use_count", 0)
get_use_count(entry) == IF entry.use_count.kind = "int" THEN entry.use_count.v ELSE 0

\* the index of the first entry with the connection's id, 0 for None
existing_index(h, conn_id) ==
    IF \E i \in DOMAIN h : _connection_id(h[i]) = conn_id
    THEN CHOOSE i \in DOMAIN h :
            /\ _connection_id(h[i]) = conn_id
            /\ \A k \in 1..(i - 1) : _connection_id(h[k]) # conn_id
    ELSE 0

\* self._history[:limit] for limit >= 0
get_history(h, limit) == SubSeq(h, 1, IF Len(h) < limit THEN Len(h) ELSE limit)

\* a record_connection that keeps every entry
record_connection_unlimited(h, connection, timestamp) ==
    LET i == existing_index(h, _connection_id(connection))
    IN  IF i # 0
        THEN [h EXCEPT ![i].last_used = Text(timestamp),
                       ![i].use_count = IntValue(get_use_count(h[i]) + 1)]
        ELSE <<history_entry(connection, timestamp)>> \o h

\* a record_connection that never looks for an existing entry
record_connection_always_inserts(h, connection, timestamp) ==
    get_history(<<history_entry(connection, timestamp)>> \o h, HistoryLimit)

\* ConnectionManager.record_connection: the history it leaves (saved by the
\* action below); an existing entry is updated where it is, a new one is put
\* first, and the first 100 entries are kept
record_connection(h, connection, timestamp) ==
    LET i == existing_index(h, _connection_id(connection))
        updated == IF i # 0
                   THEN [h EXCEPT ![i].last_used = Text(timestamp),
                                  ![i].use_count = IntValue(get_use_count(h[i]) + 1)]
                   ELSE <<history_entry(connection, timestamp)>> \o h
    IN  get_history(updated, HistoryLimit)

\* conn_id in self._favorites
InList(favs, conn_id) == \E i \in DOMAIN favs : favs[i] = conn_id

\* list.remove(x): the first occurrence goes
remove(favs, conn_id) ==
    LET i == CHOOSE k \in DOMAIN favs :
                /\ favs[k] = conn_id
                /\ \A m \in 1..(k - 1) : favs[m] # conn_id
    IN  SubSeq(favs, 1, i - 1) \o SubSeq(favs, i + 1, Len(favs))

\* ConnectionManager.toggle_favorite: the favourites it leaves and what it returns
toggle_favorite(favs, connection) ==
    LET conn_id == _connection_id(connection)
    IN  IF InList(favs, conn_id)
        THEN [favorites |-> remove(favs, conn_id), returned |-> FALSE]
        ELSE [favorites |-> Append(favs, conn_id), returned |-> TRUE]

\* ConnectionManager.is_favorite on the list favs
cm_is_favorite(favs, connection) == InList(favs, _connection_id(connection))

\* ConnectionManager.get_stats: total_connections, total_uses, favorites_count
RECURSIVE SumUses(_)
SumUses(h) ==
    IF h = <<>> THEN 0
    ELSE IF Len(h) = 1 THEN get_use_count(h[1])
    ELSE LET m == Len(h) \div 2
         IN  SumUses(SubSeq(h, 1, m)) + SumUses(SubSeq(h, m + 1, Len(h)))
get_stats(h, favs) ==
    [total_connections |-> Len(h), total_uses |-> SumUses(h), favorites_count |-> Len(favs)]

(***************************************************************************)
(* yaml.safe_dump and yaml.safe_load on lists of strings and of dicts      *)
(***************************************************************************)
\* the implicit resolver on a plain scalar
IsNumber(s) ==
    LET digits == IF s # <<>> /\ Head(s) \in {"-", "+"} THEN Tail(s) ELSE s
    IN  digits # <<>> /\ \A i \in DOMAIN digits : IsDigit(digits[i])
IsTimestamp(s) ==
    /\ Len(s) >= 10
    /\ \A i \in {1, 2, 3, 4, 6, 7, 9, 10} : IsDigit(s[i])
    /\ s[5] = "-" /\ s[8] = "-"
    /\ (Len(s) = 10 \/ s[11] \in {"T", "t", " "})
NullWords == {<<>>, <<"~">>, <<"n", "u", "l", "l">>}
BoolWords == {<<"y", "e", "s">>, <<"n", "o">>, <<"o", "n">>, <<"o", "f", "f">>,
              <<"t", "r", "u", "e">>, <<"f", "a", "l", "s", "e">>}
resolve(s) ==
    IF s \in NullWords THEN "null"
    ELSE IF lower(s) \in BoolWords THEN "bool"
    ELSE IF IsNumber(s) THEN "int"
    ELSE IF IsTimestamp(s) THEN "timestamp"
    ELSE "str"

\* characters a plain scalar cannot start with
Indicators == {"-", "?", ":", ",", "[", "]", "{", "}", "#", "&", "*", "!", "|", ">", "'",
               "%", "@"}

\* the emitter's choice for a string: plain only if that reads back as the
\* same string
PlainAllowed(s) ==
    /\ s # <<>>
    /\ ~IsSpace(Head(s)) /\ ~IsSpace(s[Len(s)])
    /\ Head(s) \notin Indicators
    /\ ~\E i \in 1..(Len(s) - 1) : s[i] = ":" /\ IsSpace(s[i + 1])
    /\ ~\E i \in 2..Len(s) : s[i] = "#" /\ IsSpace(s[i - 1])
    /\ s[Len(s)] # ":"
    /\ resolve(s) = "str"

NoScalar == [style |-> "absent", text |-> <<>>]

\* a representer that writes every string plain
represent_plain(value) ==
    IF value.kind = "absent" THEN NoScalar
    ELSE IF value.kind = "int" THEN [style |-> "plain", text |-> str(value.v)]
    ELSE [style |-> "plain", text |-> value.v]

\* SafeRepresenter and the emitter on a str or an int (a key that is not in
\* the dict writes nothing)
represent(value) ==
    IF value.kind = "absent" THEN NoScalar
    ELSE IF value.kind = "int" THEN [style |-> "plain", text |-> str(value.v)]
    ELSE [style |-> IF PlainAllowed(value.v) THEN "plain" ELSE "quoted", text |-> value.v]

\* SafeConstructor on a scalar: a quoted scalar is a str, a plain one what the
\* resolver makes of it
construct(node) ==
    IF node.style = "absent" THEN Absent
    ELSE IF node.style = "quoted" THEN Text(node.text)
    ELSE LET s == strip(node.text)
             tag == resolve(s)
         IN  IF tag = "str" THEN Text(s)
             ELSE IF tag = "int" THEN IntValue(int(s).v)
             ELSE [kind |-> tag, v |-> s]

\* yaml.safe_dump of the history (a list of dicts) and of the favourites (a
\* list of str)
safe_dump_history(h) ==
    [exists |-> TRUE,
     doc |-> [i \in DOMAIN h |-> [k \in DOMAIN h[i] |-> represent(h[i][k])]]]
safe_dump_favorites(favs) ==
    [exists |-> TRUE, doc |-> [i \in DOMAIN favs |-> represent(Text(favs[i]))]]

NoFile == [exists |-> FALSE, doc |-> <<>>]

\* _load_history: no file, or a file that holds nothing, is the empty history
_load_history(file) ==
    IF ~file.exists THEN <<>>
    ELSE [i \in DOMAIN file.doc |->
            [k \in DOMAIN file.doc[i] |-> construct(file.doc[i][k])]]

\* _load_favorites; a favourite that is a str is its characters, and one that
\* is not starts with its tag
_load_favorites(file) ==
    IF ~file.exists THEN <<>>
    ELSE [i \in DOMAIN file.doc |->
            LET value == construct(file.doc[i])
            IN  IF value.kind = "str" THEN value.v
                ELSE IF value.kind = "int" THEN <<"!!int">> \o str(value.v)
                ELSE <<"!!" \o value.kind>> \o value.v]

(***************************************************************************)
(* The manager's operations                                                *)
(***************************************************************************)
\* the history n recordings of n hosts leave, the last host recorded first
Recorded(n) == [i \in 1..n |-> history_entry(Host(n + 1 - i), isoformat(n + 1 - i))]

\* history.yml as earlier runs of the program left it
HistoryFiles ==
    {NoFile} \cup {safe_dump_history(Recorded(n)) : n \in {0, HistoryLimit - 1}}
FavoritesFiles == {NoFile, safe_dump_favorites(<<_connection_id(Host(1))>>)}

\* the connections record_connection and toggle_favorite are called with
RecordedConnections == {Host(1), Host(HistoryLimit + 1), Host(HistoryLimit + 2), Numbered}
ToggledConnections == {Host(1), ColonInName, ColonInAddress}

\* ConnectionManager(config_dir).__init__: both files are loaded
InitConn ==
    /\ history_file \in HistoryFiles
    /\ favorites_file \in FavoritesFiles
    /\ _history = _load_history(history_file)
    /\ _favorites = _load_favorites(favorites_file)
    /\ clock = HistoryLimit
    /\ cmOp = "init"
    /\ arg = Host(1)
    /\ returned = FALSE
    /\ recordings = [i \in 1..Len(_history) |-> _connection_id(_history[Len(_history) + 1 - i])]
    /\ truncated = FALSE

\* record_connection(connection) at the next reading of the clock, and _save_history
RecordConnection(connection) ==
    /\ clock < HistoryLimit + MaxCalls
    /\ LET h == record_connection(_history, connection, isoformat(clock + 1))
       IN  /\ _history' = h
           /\ history_file' = safe_dump_history(h)
           /\ truncated' = (truncated
                              \/ Len(h) < Len(record_connection_unlimited(
                                                _history, connection, isoformat(clock + 1))))
    /\ clock' = clock + 1
    /\ recordings' = Append(recordings, _connection_id(connection))
    /\ cmOp' = "record"
    /\ arg' = connection
    /\ UNCHANGED <<_favorites, favorites_file, returned>>

\* toggle_favorite(connection), and _save_favorites
ToggleFavorite(connection) ==
    /\ LET r == toggle_favorite(_favorites, connection)
       IN  /\ _favorites' = r.favorites
           /\ favorites_file' = safe_dump_favorites(r.favorites)
           /\ returned' = r.returned
    /\ cmOp' = "toggle"
    /\ arg' = connection
    /\ UNCHANGED <<_history, history_file, clock, recordings, truncated>>

\* clear_history(), and _save_history
ClearHistory ==
    /\ _history # <<>>
    /\ _history' = <<>>
    /\ history_file' = safe_dump_history(<<>>)
    /\ recordings' = <<>>
    /\ truncated' = FALSE
    /\ cmOp' = "clear"
    /\ UNCHANGED <<_favorites, favorites_file, clock, arg, returned>>

\* a new ConnectionManager on the same directory takes the place of this one
NewManager ==
    /\ cmOp # "new"
    /\ _history' = _load_history(history_file)
    /\ _favorites' = _load_favorites(favorites_file)
    /\ cmOp' = "new"
    /\ UNCHANGED <<history_file, favorites_file, clock, arg, returned, recordings, truncated>>

\* no connection manager while the other parts are exercised
ConnIdle ==
    /\ _history = <<>>
    /\ _favorites = <<>>
    /\ history_file = NoFile
    /\ favorites_file = NoFile
    /\ clock = 0
    /\ cmOp = "init"
    /\ arg = Host(1)
    /\ returned = FALSE
    /\ recordings = <<>>
    /\ truncated = FALSE

(***************************************************************************)
(* Blocking connects: SshListView.connect, DockerListView._connect_to_     *)
(* container and swarm_connect park the screen, run an external command    *)
(* and resume                                                              *)
(***************************************************************************)
\* no return code yet
NoRc == -1
\* os.system's status when docker exec did not find the shell
ShellNotFound == 32256

Integrations == {"none", "tmux", "iterm2"}

\* what a blocked call ends with: the command's return code, an exception
\* raised by the call itself, or a KeyboardInterrupt during the time.sleep
\* that follows a non-zero return code
Outcomes == {[rc |-> 0, exc |-> ""],
             [rc |-> 1, exc |-> ""],
             [rc |-> ShellNotFound, exc |-> ""],
             [rc |-> NoRc, exc |-> "OSError"],
             [rc |-> 1, exc |-> "KeyboardInterrupt"]}

\* a connection record without an address
NoAddress == [name |-> Text(<<"h">>)]

\* SSHService.validate_connection
validate_connection(connection) ==
    IF DOMAIN connection = {} THEN FALSE
    ELSE IF "address" \notin DOMAIN connection THEN FALSE
    ELSE TRUE

\* SshListView.connect, traditional mode, from the return of ssh_service.connect:
\* except Exception handles the exception, finally starts the screen; an
\* exception that is no Exception leaves the handler after the finally block
ssh_connect_ends(o) ==
    [screen |-> "started",
     uncaught |-> IF o.exc = "KeyboardInterrupt" THEN o.exc ELSE ""]

\* DockerListView._connect_to_container, traditional mode, likewise
docker_connect_ends(o) ==
    [screen |-> "started",
     uncaught |-> IF o.exc = "KeyboardInterrupt" THEN o.exc ELSE ""]

\* swarm_connect from the return of its last os.system: no try, the statements
\* after the one that raised are not run
swarm_connect_ends(o) ==
    IF o.exc # ""
    THEN [screen |-> "stopped", uncaught |-> o.exc]
    ELSE [screen |-> "started", uncaught |-> ""]

\* the application runs, no handler is blocked
InitConnect ==
    /\ screen = "started"
    /\ blocked = "no"
    /\ attempt = 0
    /\ rc = NoRc
    /\ uncaught = ""
    /\ terminal_integration \in Integrations
    /\ connectOp = "init"

\* the integration's branch of a connect: the command is launched in a tmux
\* window or an iTerm2 tab, the screen is not touched
Launch(code) ==
    /\ rc' = code
    /\ connectOp' = "launched"
    /\ UNCHANGED <<screen, blocked, attempt, uncaught, terminal_integration>>

\* the traditional branch up to the external command: screen.stop()
Park(who) ==
    /\ screen' = "stopped"
    /\ blocked' = who
    /\ attempt' = 1
    /\ connectOp' = "parked"
    /\ UNCHANGED <<rc, uncaught, terminal_integration>>

\* SshListView.connect(data) up to the external command; available is what
\* is_inside_tmux() / is_iterm2_available() returns, code what the launch returns
SshConnect(data, available, code) ==
    /\ blocked = "no"
    /\ uncaught = ""
    /\ IF ~validate_connection(data)
       THEN /\ connectOp' = "invalid"
            /\ UNCHANGED <<screen, blocked, attempt, rc, uncaught, terminal_integration>>
            /\ UNCHANGED connVars
       ELSE /\ RecordConnection(data)
            /\ IF terminal_integration # "none" /\ available
               THEN Launch(code)
               ELSE Park("ssh")

\* a == b of two values of a record
SameValue(a, b) == a.kind = b.kind /\ a.v = b.v

\* SshListView.fetch_data(): the connections of the configuration, in its order
Configured ==
    <<Host(1), Host(HistoryLimit - 1), Host(HistoryLimit + 1), Host(HistoryLimit + 2), Numbered>>

\* SshListView._connect_to_last_used up to its call of connect: the connection
\* it hands to connect, found = FALSE when it returns without one
_connect_to_last_used(h, all_connections) ==
    LET last == get_history(h, 1)
    IN  IF last = <<>> \/ all_connections = <<>> THEN [found |-> FALSE, conn |-> NoAddress]
        ELSE LET last_conn == last[1]
                 matches == {i \in DOMAIN all_connections :
                               /\ SameValue(all_connections[i].name, last_conn.name)
                               /\ SameValue(all_connections[i].address, last_conn.address)}
             IN  IF matches = {} THEN [found |-> FALSE, conn |-> NoAddress]
                 ELSE [found |-> TRUE,
                       conn |-> all_connections[CHOOSE i \in matches :
                                                  \A j \in matches : i <= j]]

\* the key 'L' in the SSH view: _connect_to_last_used, and the connect it makes
QuickConnect(available, code) ==
    /\ blocked = "no"
    /\ uncaught = ""
    /\ LET r == _connect_to_last_used(_history, Configured)
       IN  IF r.found THEN SshConnect(r.conn, available, code)
           ELSE /\ connectOp' = "nothing"
                /\ UNCHANGED <<screen, blocked, attempt, rc, uncaught, terminal_integration>>
                /\ UNCHANGED connVars

\* DockerListView._connect_to_container(data) up to the external command
DockerConnect(available, code) ==
    /\ blocked = "no"
    /\ uncaught = ""
    /\ IF terminal_integration # "none" /\ available
       THEN Launch(code)
       ELSE Park("docker")

\* swarm_connect(data) up to its first os.system
SwarmConnect ==
    /\ blocked = "no"
    /\ uncaught = ""
    /\ Park("swarm")

\* the external command of the blocked handler ends, and the handler runs on
\* to its end; swarm_connect runs the command once more with sh when the first
\* run did not find the shell
CommandEnds(o) ==
    /\ blocked # "no"
    /\ rc' = o.rc
    /\ IF blocked = "swarm" /\ attempt = 1 /\ o.exc = "" /\ o.rc = ShellNotFound
       THEN /\ attempt' = 2
            /\ connectOp' = "retried"
            /\ UNCHANGED <<screen, blocked, uncaught>>
       ELSE LET r == CASE blocked = "ssh" -> ssh_connect_ends(o)
                       [] blocked = "docker" -> docker_connect_ends(o)
                       [] OTHER -> swarm_connect_ends(o)
            IN  /\ screen' = r.screen
                /\ uncaught' = r.uncaught
                /\ blocked' = "no"
                /\ attempt' = 0
                /\ connectOp' = "ended"
    /\ UNCHANGED terminal_integration

\* no connect while the other parts are exercised
ConnectIdle ==
    /\ screen = "started"
    /\ blocked = "no"
    /\ attempt = 0
    /\ rc = NoRc
    /\ uncaught = ""
    /\ terminal_integration = "none"
    /\ connectOp = "init"

(***************************************************************************)
(* The Tmux view (TmuxListView.py) and the tmux session behind it          *)
(* (services/tmux_service.py)                                              *)
(***************************************************************************)
\* the window indexes of the session are 0..MaxWindow
MaxWindow == 3
WindowIndexes == 0..MaxWindow

\* no window: the row of a call made without a row
NoWindow == -1

\* #{window_name}
WindowName(w) == IF w % 2 = 0 THEN <<"b", "a", "s", "h">> ELSE <<"v", "i", "m">>

\* the texts typed into the filter field of the Tmux view
TmuxTexts == {Query(<<>>), Query(<<"a">>)}

\* a set of window indexes in ascending order, as tmux list-windows prints them
RECURSIVE Ascending(_)
Ascending(S) ==
    IF S = {} THEN <<>>
    ELSE LET m == CHOOSE x \in S : \A y \in S : x <= y
         IN  <<m>> \o Ascending(S \ {m})

\* TmuxService.list_windows: one dict per window, "index" the int of the window
\* index; id is the identity of the dict, the window it was made for
list_windows(ws, active) ==
    LET order == Ascending(ws)
    IN  [k \in 1..Len(order) |->
            [id |-> order[k], name |-> Text(WindowName(order[k])),
             index |-> IntValue(order[k]), active |-> order[k] = active]]

\* TmuxListView.fetch_data: windows if windows else None
tmux_fetch_data(ws, active) ==
    LET windows == list_windows(ws, active)
    IN  IF windows = <<>> THEN NoneData ELSE Data(windows)

\* the Tmux view and the session
TmuxState ==
    [windows |-> tmux_windows, active |-> tmux_active, walker |-> tmux_walker,
     edit_text |-> tmux_edit_text, error |-> tmux_error,
     call |-> [cmd |-> "none", target |-> NoWindow, rc |-> NoRc],
     refreshed |-> [called |-> FALSE, text |-> NoneText]]

\* filter_and_set(filter_string) of the Tmux view: filter_data over a fresh
\* fetch_data with the fields name and index, then _set_data, whose ListItems
\* write the display position into "index" of every dict shown
tmux_filter_and_set(t, text) ==
    LET data == filter_data(tmux_fetch_data(t.windows, t.active), <<"name", "index">>, text)
        t1 == [t EXCEPT !.refreshed = [called |-> TRUE, text |-> text]]
    IN  IF data.raised # "" THEN [t1 EXCEPT !.error = data.raised]
        ELSE [t1 EXCEPT !.walker = ListItems(data.items, data.items, 0)]

\* TmuxService.switch_window(window_index): tmux select-window -t index
switch_window(t, window_index, fails) ==
    IF window_index \in t.windows /\ ~fails
    THEN [t EXCEPT !.active = window_index,
                   !.call = [cmd |-> "select-window", target |-> window_index, rc |-> 0]]
    ELSE [t EXCEPT !.call = [cmd |-> "select-window", target |-> window_index, rc |-> 1]]

\* TmuxService.kill_window(window_index): tmux kill-window -t index; the
\* processes of the window killed end with it
kill_window(t, window_index, fails) ==
    IF window_index \in t.windows /\ ~fails
    THEN [t EXCEPT !.windows = @ \ {window_index},
                   !.error = IF window_index = ucm_window THEN "killed" ELSE @,
                   !.call = [cmd |-> "kill-window", target |-> window_index, rc |-> 0]]
    ELSE [t EXCEPT !.call = [cmd |-> "kill-window", target |-> window_index, rc |-> 1]]

\* the data a handler is called with: None, or a dict
NoneRecord == [isNone |-> TRUE, record |-> [id |-> NoWindow, name |-> Absent,
                                            index |-> Absent, active |-> FALSE]]
Record(r) == [isNone |-> FALSE, record |-> r]
\* a dict without "index"
NoIndexRecord == Record([id |-> NoWindow, name |-> Text(WindowName(0)), index |-> Absent,
                         active |-> FALSE])

\* a switch_to_window that refreshes the list whatever the command returned
switch_to_window_always_refreshes(t, data, fails) ==
    IF data.isNone THEN t
    ELSE IF data.record.index.kind = "absent" THEN t
    ELSE tmux_filter_and_set(switch_window(t, data.record.index.v, fails), t.edit_text)

\* TmuxListView.switch_to_window(data)
switch_to_window(t, data, fails) ==
    IF data.isNone THEN t
    ELSE IF data.record.index.kind = "absent" THEN t
    ELSE LET t1 == switch_window(t, data.record.index.v, fails)
         IN  IF t1.call.rc # 0 THEN t1
             ELSE tmux_filter_and_set(t1, t1.edit_text)

\* TmuxListView.close_window(data); survives: the handler of a program whose
\* own window was killed runs on to its end before the program ends
close_window(t, data, fails, survives) ==
    IF data.isNone THEN t
    ELSE IF data.record.index.kind = "absent" THEN t
    ELSE IF data.record.active THEN t
    ELSE LET t1 == kill_window(t, data.record.index.v, fails)
         IN  IF t1.call.rc # 0 THEN t1
             ELSE IF t1.error = "killed" /\ ~survives THEN t1
             ELSE tmux_filter_and_set(t1, t1.edit_text)

\* TmuxListView.keypress_callback(size, key, data)
tmux_keypress_callback(t, key, data, fails, survives) ==
    CASE key \in {"c", "enter"} -> switch_to_window(t, data, fails)
      [] key = "x" -> close_window(t, data, fails, survives)
      [] key = "r" -> tmux_filter_and_set(t, Query(<<>>))
      [] OTHER -> t

\* the view and the session take the values a handler left
Install_tmux(t) ==
    /\ tmux_windows' = t.windows
    /\ tmux_active' = t.active
    /\ tmux_walker' = t.walker
    /\ tmux_edit_text' = t.edit_text
    /\ tmux_error' = t.error
    /\ tmux_call' = t.call
    /\ tmux_refreshed' = t.refreshed

\* TmuxListView.__init__ in a session whose active window runs UCM:
\* ucm_window_index is the current window, then filter_and_set('')
InitTmux ==
    /\ tmux_windows \in (SUBSET WindowIndexes) \ {{}}
    /\ ucm_window \in tmux_windows
    /\ tmux_active = ucm_window
    /\ tmux_edit_text = Query(<<>>)
    /\ tmux_walker = tmux_filter_and_set(
                        [windows |-> tmux_windows, active |-> tmux_active, walker |-> <<>>,
                         edit_text |-> tmux_edit_text, error |-> "",
                         call |-> [cmd |-> "none", target |-> NoWindow, rc |-> NoRc],
                         refreshed |-> [called |-> FALSE, text |-> NoneText]],
                        Query(<<>>)).walker
    /\ tmux_error = ""
    /\ tmux_call = [cmd |-> "none", target |-> NoWindow, rc |-> NoRc]
    /\ tmux_refreshed = [called |-> TRUE, text |-> Query(<<>>)]
    /\ tmux_row = NoWindow
    /\ tmuxOp = "init"

\* the name of the handler a key runs
TmuxOpOf(key) ==
    CASE key \in {"c", "enter"} -> "switch" [] key = "x" -> "close" [] OTHER -> "refresh"

\* a key pressed on row r of the list while the window of UCM is the active one:
\* ListItem.keypress hands the row's dict to keypress_callback
TmuxKey(key, r, fails, survives) ==
    /\ tmux_error = ""
    /\ tmux_active = ucm_window
    /\ r \in 1..Len(tmux_walker)
    /\ Install_tmux(tmux_keypress_callback(TmuxState, key, Record(tmux_walker[r]), fails,
                                           survives))
    /\ tmux_row' = tmux_walker[r].id
    /\ tmuxOp' = TmuxOpOf(key)
    /\ UNCHANGED ucm_window

\* switch_to_window or close_window called with None or with a dict that has
\* no index
TmuxCall(key, data) ==
    /\ tmux_error = ""
    /\ tmux_active = ucm_window
    /\ Install_tmux(tmux_keypress_callback(TmuxState, key, data, FALSE, TRUE))
    /\ tmux_row' = NoWindow
    /\ tmuxOp' = TmuxOpOf(key)
    /\ UNCHANGED ucm_window

\* a text typed into the filter field: filter_action -> filter_and_set(text)
TmuxType(text) ==
    /\ tmux_error = ""
    /\ tmux_active = ucm_window
    /\ text # tmux_edit_text
    /\ Install_tmux(tmux_filter_and_set([TmuxState EXCEPT !.edit_text = text], text))
    /\ tmux_row' = NoWindow
    /\ tmuxOp' = "type"
    /\ UNCHANGED ucm_window

\* Ctrl+b u, the key setup_ucm_return_key binds: tmux selects the window of UCM
ReturnToUcm ==
    /\ tmux_error = ""
    /\ tmux_active # ucm_window
    /\ tmux_active' = ucm_window
    /\ tmuxOp' = "return"
    /\ UNCHANGED <<tmux_windows, ucm_window, tmux_walker, tmux_edit_text, tmux_error,
                   tmux_call, tmux_refreshed, tmux_row>>

\* a window opened in the session by its user; tmux makes it the active one
NewWindow(w) ==
    /\ tmux_error = ""
    /\ w \notin tmux_windows
    /\ tmux_windows' = tmux_windows \cup {w}
    /\ tmux_active' = w
    /\ tmuxOp' = "new-window"
    /\ UNCHANGED <<ucm_window, tmux_walker, tmux_edit_text, tmux_error, tmux_call,
                   tmux_refreshed, tmux_row>>

\* no Tmux view while the other parts are exercised
TmuxIdle ==
    /\ tmux_windows = {}
    /\ tmux_active = NoWindow
    /\ ucm_window = NoWindow
    /\ tmux_walker = <<>>
    /\ tmux_edit_text = Query(<<>>)
    /\ tmux_error = ""
    /\ tmux_call = [cmd |-> "none", target |-> NoWindow, rc |-> NoRc]
    /\ tmux_refreshed = [called |-> FALSE, text |-> NoneText]
    /\ tmux_row = NoWindow
    /\ tmuxOp = "init"

(***************************************************************************)
(* SettingsManager (settings_manager.py).  A settings dict is the set of   *)
(* its nodes, every node with its key path from the root: the dicts in it  *)
(* and the values at its leaves                                            *)
(***************************************************************************)
True == [kind |-> "bool", v |-> <<"t", "r", "u", "e">>]
False == [kind |-> "bool", v |-> <<"f", "a", "l", "s", "e">>]
None == [kind |-> "null", v |-> <<>>]
Dict == [kind |-> "dict", v |-> <<>>]
Node(path, value) == [path |-> path, kind |-> value.kind, v |-> value.v]

ModeNone == <<"n", "o", "n", "e">>
ModeTmux == <<"t", "m", "u", "x">>
ModeIterm2 == <<"i", "t", "e", "r", "m", "2">>

\* SettingsManager.DEFAULT_SETTINGS
DEFAULT_SETTINGS ==
    {Node(<<"terminal">>, Dict),
     Node(<<"terminal", "integration">>, Text(ModeNone)),
     Node(<<"terminal", "tmux">>, Dict),
     Node(<<"terminal", "tmux", "mode">>, Text(<<"w", "i", "n", "d", "o", "w">>)),
     Node(<<"terminal", "tmux", "auto_name">>, True),
     Node(<<"terminal", "iterm2">>, Dict),
     Node(<<"terminal", "iterm2", "profile">>, Text(<<"D", "e", "f", "a", "u", "l", "t">>))}

IsPrefix(p, q) == Len(p) <= Len(q) /\ SubSeq(q, 1, Len(p)) = p

\* the node at a path with all below it
Subtree(d, p) == {e \in d : IsPrefix(p, e.path)}

\* what is at a path: "dict", the type of a value, or "missing"; the root is a dict
KindAt(d, p) ==
    IF p = <<>> THEN "dict"
    ELSE IF \E e \in d : e.path = p THEN (CHOOSE e \in d : e.path = p).kind
    ELSE "missing"

\* the value at a path
ValueAt(d, p) == LET e == CHOOSE x \in d : x.path = p IN [kind |-> e.kind, v |-> e.v]

\* dict.keys() of the dict at a path
dict_keys(d, p) == {e.path[Len(p) + 1] : e \in {x \in d : Len(x.path) = Len(p) + 1 /\ IsPrefix(p, x.path)}}

\* deep_merge(base, override) of _merge_with_defaults, for the dicts at path p;
\* merge_keys is its loop over the keys of override that are left
RECURSIVE deep_merge(_, _, _), merge_keys(_, _, _, _)
merge_keys(base, override, p, ks) ==
    IF ks = {} THEN base
    ELSE LET key == CHOOSE k \in ks : TRUE
             q == Append(p, key)
             merged == IF KindAt(base, q) = "dict" /\ KindAt(override, q) = "dict"
                       THEN deep_merge(base, override, q)
                       ELSE (base \ Subtree(base, q)) \cup Subtree(override, q)
         IN  merge_keys(merged, override, p, ks \ {key})
deep_merge(base, override, p) == merge_keys(base, override, p, dict_keys(override, p))

\* a merge that takes the file as it is
_merge_without_defaults(data) == data

\* SettingsManager._merge_with_defaults(data)
_merge_with_defaults(data) == deep_merge(DEFAULT_SETTINGS, data, <<>>)

\* yaml.safe_dump of a settings dict: a bool and None are written plain, a str
\* as safe_dump writes a str
represent_setting(e) ==
    IF e.kind = "dict" THEN NoScalar
    ELSE IF e.kind = "bool" THEN [style |-> "plain", text |-> e.v]
    ELSE IF e.kind = "null" THEN [style |-> "plain", text |-> <<"n", "u", "l", "l">>]
    ELSE represent([kind |-> e.kind, v |-> e.v])
safe_dump_settings(d) ==
    [exists |-> TRUE, root |-> "dict",
     doc |-> {[path |-> e.path, kind |-> IF e.kind = "dict" THEN "dict" ELSE "scalar",
               node |-> represent_setting(e)] : e \in d}]

\* yaml.safe_load of the nodes of config.yml
construct_setting(n) ==
    IF n.kind = "dict" THEN Dict
    ELSE LET c == construct(n.node)
         IN  IF c.kind = "null" THEN None
             ELSE IF c.kind = "bool"
             THEN (IF lower(c.v) \in {<<"y", "e", "s">>, <<"o", "n">>, <<"t", "r", "u", "e">>}
                   THEN True ELSE False)
             ELSE c
safe_load_settings(file) == {Node(n.path, construct_setting(n)) : n \in file.doc}

NoSettingsFile == [exists |-> FALSE, root |-> "empty", doc |-> {}]
\* a config.yml that holds no document
EmptySettingsFile == [exists |-> TRUE, root |-> "empty", doc |-> {}]
\* a config.yml written by hand: the nodes given, every scalar plain
Written(nodes) ==
    [exists |-> TRUE, root |-> "dict",
     doc |-> {[path |-> n[1], kind |-> IF n[2] = "dict" THEN "dict" ELSE "scalar",
               node |-> IF n[2] = "dict" THEN NoScalar ELSE [style |-> "plain", text |-> n[3]]]
              : n \in nodes}]

\* the config.yml files a manager is started on: none, an empty one, the file
\* of a manager set to tmux, and partial files of the same shape
SettingsFiles ==
    {NoSettingsFile, EmptySettingsFile,
     safe_dump_settings((DEFAULT_SETTINGS \ {Node(<<"terminal", "integration">>, Text(ModeNone))})
                        \cup {Node(<<"terminal", "integration">>, Text(ModeTmux))}),
     Written({<<<<"terminal">>, "dict", <<>>>>,
              <<<<"terminal", "integration">>, "scalar", ModeIterm2>>}),
     Written({<<<<"terminal">>, "dict", <<>>>>,
              <<<<"terminal", "tmux">>, "dict", <<>>>>,
              <<<<"terminal", "tmux", "mode">>, "scalar", <<"p", "a", "n", "e">>>>})}

\* SettingsManager._load_settings: [settings, file]; a missing file is written
\* with the defaults, an empty one gives the defaults
_load_settings(file) ==
    IF ~file.exists
    THEN [settings |-> DEFAULT_SETTINGS, file |-> safe_dump_settings(DEFAULT_SETTINGS)]
    ELSE IF file.root = "empty" THEN [settings |-> DEFAULT_SETTINGS, file |-> file]
    ELSE [settings |-> _merge_with_defaults(safe_load_settings(file)), file |-> file]

\* SettingsManager.get(key_path, default), key_path already split: the walk
\* from the dict at path p
RECURSIVE settings_get(_, _, _, _)
settings_get(d, p, key_path, default) ==
    IF key_path = <<>> THEN (IF p = <<>> THEN Dict ELSE ValueAt(d, p))
    ELSE IF KindAt(d, p) = "dict" /\ KindAt(d, Append(p, Head(key_path))) # "missing"
    THEN settings_get(d, Append(p, Head(key_path)), Tail(key_path), default)
    ELSE default

\* SettingsManager.set(key_path, value): the walk to the parent from the dict at
\* path p, then the assignment and _save_settings; a target that is no dict
\* raises TypeError
RECURSIVE settings_set(_, _, _, _, _)
settings_set(d, file, p, key_path, value) ==
    IF KindAt(d, p) # "dict" THEN [settings |-> d, file |-> file, raised |-> "TypeError"]
    ELSE IF Len(key_path) = 1
    THEN LET q == Append(p, Head(key_path))
             new == (d \ Subtree(d, q)) \cup {Node(q, value)}
         IN  [settings |-> new, file |-> safe_dump_settings(new), raised |-> ""]
    ELSE LET q == Append(p, Head(key_path))
         IN  settings_set(IF KindAt(d, q) = "missing" THEN d \cup {Node(q, Dict)} ELSE d,
                 file, q, Tail(key_path), value)

\* a setter that stores whatever it is given
set_terminal_integration_unchecked(d, file, mode) ==
    settings_set(d, file, <<>>, <<"terminal", "integration">>, Text(mode))

\* SettingsManager.set_terminal_integration(mode)
set_terminal_integration(d, file, mode) ==
    IF mode \notin {ModeNone, ModeTmux, ModeIterm2}
    THEN [settings |-> d, file |-> file, raised |-> "ValueError"]
    ELSE settings_set(d, file, <<>>, <<"terminal", "integration">>, Text(mode))

\* SettingsManager.get_terminal_integration()
get_terminal_integration(d) == settings_get(d, <<>>, <<"terminal", "integration">>, Text(ModeNone))

\* the modes set_terminal_integration is called with
Modes == {ModeNone, ModeTmux, ModeIterm2, <<"s", "c", "r", "e", "e", "n">>, <<"T", "m", "u", "x">>,
          <<>>}

\* SettingsManager(config_dir) on a directory with one of the files
InitSettings ==
    /\ \E file \in SettingsFiles :
         LET r == _load_settings(file)
         IN  _settings = r.settings /\ settings_file = r.file
    /\ settings_raised = ""
    /\ settings_mode = <<>>
    /\ settingsOp = "init"

\* set_terminal_integration(mode)
SetTerminalIntegration(mode) ==
    /\ LET r == set_terminal_integration(_settings, settings_file, mode)
       IN  /\ _settings' = r.settings
           /\ settings_file' = r.file
           /\ settings_raised' = r.raised
    /\ settings_mode' = mode
    /\ settingsOp' = "set_terminal_integration"

\* set("terminal.tmux.auto_name", value), as the settings dialog does
SetAutoName(value) ==
    /\ LET r == settings_set(_settings, settings_file, <<>>, <<"terminal", "tmux", "auto_name">>, value)
       IN  /\ _settings' = r.settings
           /\ settings_file' = r.file
           /\ settings_raised' = r.raised
    /\ settingsOp' = "set"
    /\ UNCHANGED settings_mode

\* reset_to_defaults()
ResetToDefaults ==
    /\ _settings' = DEFAULT_SETTINGS
    /\ settings_file' = safe_dump_settings(DEFAULT_SETTINGS)
    /\ settings_raised' = ""
    /\ settingsOp' = "reset_to_defaults"
    /\ UNCHANGED settings_mode

\* a new SettingsManager on the same directory takes the place of this one
NewSettingsManager ==
    /\ settingsOp # "new"
    /\ LET r == _load_settings(settings_file)
       IN  _settings' = r.settings /\ settings_file' = r.file
    /\ settings_raised' = ""
    /\ settingsOp' = "new"
    /\ UNCHANGED settings_mode

\* no settings manager while the other parts are exercised
SettingsIdle ==
    /\ _settings = {}
    /\ settings_file = NoSettingsFile
    /\ settings_raised = ""
    /\ settings_mode = <<>>
    /\ settingsOp = "init"

\* ---------------------------------------------------------------------------
\* A key pressed in the Docker view: ListItem.keypress, the view's
\* keypress_callback, the list box, and MainLoop's unhandled_input
\* (Actions.show_or_exit). The state of a view ds is [status, show_all, walker,
\* focus, widget]: the containers of the docker daemon, show_all_containers,
\* the names on the rows, the focus position, and the dialogs over the frame
\* (loop.widget is the last one, the frame when there is none).
\* ---------------------------------------------------------------------------
\* the containers, in the order docker ps lists them
ContainerOrder == <<"web", "db">>
Containers == Range(ContainerOrder)

\* DockerService.list_containers / list_all_containers, by show_all_containers
docker_fetch_data(ds) ==
    IF ds.show_all
    THEN SelectSeq(ContainerOrder, LAMBDA c : ds.status[c] # "removed")
    ELSE SelectSeq(ContainerOrder, LAMBDA c : ds.status[c] = "running")

\* ListView.filter_and_set with the empty filter text: _set_data(fetch_data())
docker_filter_and_set(ds) == [ds EXCEPT !.walker = docker_fetch_data(ds), !.focus = 0]

\* DialogDisplay(..., loop=main_loop).show(): the dialog lies over loop.widget
show(ds, dialog) == [ds EXCEPT !.widget = Append(ds.widget, dialog)]

\* _show_message_dialog
_show_message_dialog(ds) == show(ds, [kind |-> "message", data |-> ""])

\* _stop_container / _start_container / _restart_container / _remove_container:
\* the docker command with return code, the message, the refresh on 0
docker_command(ds, data, code, status) ==
    LET d1 == IF code = 0 THEN [ds EXCEPT !.status[data] = status] ELSE ds
        d2 == _show_message_dialog(d1)
    IN  IF code = 0 THEN docker_filter_and_set(d2) ELSE d2

\* DockerListView.keypress_callback(size, key, data): the view after it, and
\* what it did with the key ("" when the key is none of its own)
docker_keypress_callback(ds, key, data, code) ==
    IF key \in {"c", "|", "-"} THEN [ds |-> ds, acted |-> "connect"]
    ELSE IF key = "i" THEN [ds |-> show(ds, [kind |-> "info", data |-> data]), acted |-> "info"]
    ELSE IF key = "a"
    THEN [ds |-> docker_filter_and_set([ds EXCEPT !.show_all = ~ds.show_all]), acted |-> "toggle"]
    ELSE IF key = "S" THEN [ds |-> docker_command(ds, data, code, "exited"), acted |-> "stop"]
    ELSE IF key = "s" THEN [ds |-> docker_command(ds, data, code, "running"), acted |-> "start"]
    ELSE IF key = "R" THEN [ds |-> docker_command(ds, data, code, "running"), acted |-> "restart"]
    ELSE IF key = "D" THEN [ds |-> show(ds, [kind |-> "confirm", data |-> data]), acted |-> "confirm"]
    ELSE IF key = "l" THEN [ds |-> show(ds, [kind |-> "logs", data |-> data]), acted |-> "logs"]
    ELSE [ds |-> ds, acted |-> ""]

\* ListItem.keypress(size, key) of the row in focus: the callback, then
\* "return key"
ListItem_keypress(ds, key, code) ==
    LET r == docker_keypress_callback(ds, key, ds.walker[ds.focus + 1], code)
    IN  [ds |-> r.ds, acted |-> r.acted, key |-> key]

\* ListBox.keypress: the key goes to the row in focus; a key that comes back
\* is used to move the focus when it is "up" or "down", and returned otherwise
ListBox_keypress(ds, key, code) ==
    IF ds.walker = <<>> THEN [ds |-> ds, acted |-> "", key |-> key]
    ELSE LET r == ListItem_keypress(ds, key, code)
         IN  IF r.key = "up"
             THEN [r EXCEPT !.ds.focus = IF @ > 0 THEN @ - 1 ELSE @, !.key = ""]
             ELSE IF r.key = "down"
             THEN [r EXCEPT !.ds.focus = IF @ + 1 < Len(r.ds.walker) THEN @ + 1 ELSE @, !.key = ""]
             ELSE r

\* Actions.show_or_exit(key)
show_or_exit(ds, key) ==
    IF key \in {"q", "Q"} THEN show(ds, [kind |-> "exit", data |-> ""])
    ELSE IF key = "?" THEN show(ds, [kind |-> "help", data |-> ""])
    ELSE IF key \in {"s", "S"} THEN show(ds, [kind |-> "settings", data |-> ""])
    ELSE ds

\* MainLoop.process_input of one key with the list in focus: the key goes down
\* to the list box, and a key that comes back goes to unhandled_input
process_input(ds, key, code) ==
    LET r == ListBox_keypress(ds, key, code)
    IN  [ds |-> IF r.key # "" THEN show_or_exit(r.ds, r.key) ELSE r.ds,
         acted |-> r.acted,
         unhandled |-> r.key]

\* the view as the variables hold it
DockerState ==
    [status |-> container_status, show_all |-> show_all_containers, walker |-> docker_walker,
     focus |-> docker_focus, widget |-> loop_widget]

Install_docker(ds) ==
    /\ container_status' = ds.status
    /\ show_all_containers' = ds.show_all
    /\ docker_walker' = ds.walker
    /\ docker_focus' = ds.focus
    /\ loop_widget' = ds.widget

\* DockerListView.__init__ on a daemon with some containers running: only the
\* running ones are listed
InitDocker ==
    /\ container_status \in [Containers -> {"running", "exited"}]
    /\ show_all_containers = FALSE
    /\ docker_walker = docker_fetch_data([status |-> container_status, show_all |-> FALSE])
    /\ docker_focus = 0
    /\ loop_widget = <<>>
    /\ row_acted = ""
    /\ unhandled_key = ""
    /\ dockerOp = "init"

\* the keys pressed
DockerKeys == {"c", "i", "a", "S", "s", "R", "D", "l", "?", "q", "up", "down", "z"}

\* a key pressed while the list has the focus and no dialog is open; docker rm
\* fails for a running container, the other commands end with either code
DockerKey(key, code) ==
    /\ dockerOp # "exit"
    /\ loop_widget = <<>>
    /\ LET r == process_input(DockerState, key, code)
       IN  /\ Install_docker(r.ds)
           /\ row_acted' = r.acted
           /\ unhandled_key' = r.unhandled
    /\ dockerOp' = "key"

\* a button of the dialog on top is pressed: DialogDisplay.button_press puts
\* the parent back and calls exit_cb. Remove (exitcode 0) of the confirmation
\* runs _remove_container, OK of the exit dialog raises ExitMainLoop; the
\* settings dialog is left by Cancel
DialogButton(exitcode, code) ==
    /\ dockerOp # "exit"
    /\ loop_widget # <<>>
    /\ LET top == loop_widget[Len(loop_widget)]
           ds == [DockerState EXCEPT !.widget = SubSeq(loop_widget, 1, Len(loop_widget) - 1)]
       IN  /\ exitcode = 0 \/ top.kind \in {"confirm", "exit"}
           /\ IF top.kind = "confirm" /\ exitcode = 0
              THEN /\ code = 0 => container_status[top.data] = "exited"
                   /\ Install_docker(docker_command(ds, top.data, code, "removed"))
                   /\ dockerOp' = "button"
              ELSE /\ code = 0
                   /\ Install_docker(ds)
                   /\ dockerOp' = IF top.kind = "exit" /\ exitcode = 0 THEN "exit" ELSE "button"
    /\ UNCHANGED <<row_acted, unhandled_key>>

\* no Docker view while the other parts are exercised
DockerIdle ==
    /\ container_status = [c \in Containers |-> "exited"]
    /\ show_all_containers = FALSE
    /\ docker_walker = <<>>
    /\ docker_focus = 0
    /\ loop_widget = <<>>
    /\ row_acted = ""
    /\ unhandled_key = ""
    /\ dockerOp = "idle"

\* the parts added last stand idle
RestIdle == TmuxIdle /\ SettingsIdle /\ DockerIdle

(***************************************************************************)
(* Specifications                                                          *)
(***************************************************************************)
OtherIdle == ViewsIdle /\ LogIdle /\ ConnIdle /\ ConnectIdle /\ RestIdle

Init == InitTab /\ FilterIdle /\ SshIdle /\ ListIdle /\ OtherIdle

\* registration: build's calls in any order for any view's widgets, and view switches
RegWidgets == Widgets \ {"quit_button"}

Next ==
    \/ \E w \in RegWidgets : Add(w) /\ UNCHANGED <<filterVars, sshVars, listVars, otherVars>>
    \/ \E v \in Views : ViewChanged(v) /\ UNCHANGED <<filterVars, sshVars, listVars, otherVars>>

Spec == Init /\ [][Next]_vars

\* navigation: the widgets of one view registered in any order, and tab presses
NavWidgets == {"tab_bar", "listA", "filterA", "action_content", "quit_button"}

NextNav ==
    \/ \E w \in NavWidgets : Add(w) /\ UNCHANGED <<filterVars, sshVars, listVars, otherVars>>
    \/ \E n \in Nodes : Tab(n) /\ UNCHANGED <<filterVars, sshVars, listVars, otherVars>>

SpecNav == Init /\ [][NextNav]_vars

InitF == InitTab /\ InitFilter /\ SshIdle /\ ListIdle /\ OtherIdle

NextF == \E q \in Queries : FilterData(q) /\ UNCHANGED <<tabVars, sshVars, listVars, otherVars>>

SpecFilter == InitF /\ [][NextF]_vars

\* the SSH view's filter: texts typed, and the two modes toggled
InitS == InitTab /\ InitSsh /\ ListIdle /\ OtherIdle

NextSsh ==
    \/ \E q \in Queries : SshFilterAction(q) /\ UNCHANGED <<tabVars, listVars, otherVars>>
    \/ SshToggleFavoritesOnly /\ UNCHANGED <<tabVars, listVars, otherVars>>
    \/ SshToggleRecent /\ UNCHANGED <<tabVars, listVars, otherVars>>

SpecSsh == InitS /\ [][NextSsh]_vars

\* the list widget: texts typed, presses and releases of the mouse, time
InitL == InitTab /\ InitList /\ SshIdle /\ OtherIdle

NextList ==
    \/ \E q \in ListQueries :
          SetQuery(q) /\ UNCHANGED <<keys, groups, current, next, frame_focus, pile_focus,
                                     view, raised, logged, lastOp, firstReg, sshVars, otherVars>>
    \/ \E i \in 1..(MaxItems + 1) : MousePress(i) /\ UNCHANGED <<tabVars, sshVars, otherVars>>
    \/ \E j \in 0..(MaxItems + 1) : MouseRelease(j) /\ UNCHANGED <<tabVars, sshVars, otherVars>>
    \/ Tick /\ UNCHANGED <<tabVars, sshVars, otherVars>>

SpecList == InitL /\ [][NextList]_vars

\* the views: tab presses, presses on the filter field and on the first item of
\* the list, texts typed into the filter field, and switches between two views
ShownViews == {"A", "C"}

NextView ==
    \/ \E n \in Nodes : Tab(n) /\ UNCHANGED <<filterVars, sshVars, listVars, otherVars>>
    \/ PressFilterField /\ UNCHANGED <<filterVars, sshVars, listVars, otherVars>>
    \/ \E q \in ListQueries :
          TypeQuery(q) /\ UNCHANGED <<keys, groups, current, next, frame_focus, pile_focus,
                                      view, raised, logged, lastOp, firstReg, sshVars,
                                      otherVars>>
    \/ PressListItem(1) /\ UNCHANGED <<sshVars, otherVars>>
    \/ \E v \in ShownViews : SelectView(v) /\ UNCHANGED <<sshVars, logVars, connVars, connectVars, restVars>>

InitV == InitViews /\ SshIdle /\ LogIdle /\ ConnIdle /\ ConnectIdle /\ RestIdle

SpecView == InitV /\ [][NextView]_vars

\* the container-log dialog: its buttons, and the main loop running alarms
InitD == InitTab /\ FilterIdle /\ SshIdle /\ ListIdle /\ ViewsIdle /\ InitLog /\ ConnIdle
         /\ ConnectIdle /\ RestIdle

NextLog ==
    \/ TogglePause /\ UNCHANGED <<tabVars, filterVars, sshVars, listVars, viewVars, connVars, connectVars, restVars>>
    \/ \E text \in LineCounts, ok \in BOOLEAN :
          Apply(text, ok) /\ UNCHANGED <<tabVars, filterVars, sshVars, listVars, viewVars, connVars, connectVars, restVars>>
    \/ \E h \in 1..MaxAlarms :
          AlarmFires(h) /\ UNCHANGED <<tabVars, filterVars, sshVars, listVars, viewVars, connVars, connectVars, restVars>>
    \/ CloseLog /\ UNCHANGED <<tabVars, filterVars, sshVars, listVars, viewVars, connVars, connectVars, restVars>>

SpecLog == InitD /\ [][NextLog]_vars

\* the connection manager: its methods in any order, and managers made anew
InitC == InitTab /\ FilterIdle /\ SshIdle /\ ListIdle /\ ViewsIdle /\ LogIdle /\ InitConn
         /\ ConnectIdle /\ RestIdle

NextConn ==
    \/ \E connection \in RecordedConnections :
          RecordConnection(connection)
          /\ UNCHANGED <<tabVars, filterVars, sshVars, listVars, viewVars, logVars, connectVars, restVars>>
    \/ \E connection \in ToggledConnections :
          ToggleFavorite(connection)
          /\ UNCHANGED <<tabVars, filterVars, sshVars, listVars, viewVars, logVars, connectVars, restVars>>
    \/ ClearHistory /\ UNCHANGED <<tabVars, filterVars, sshVars, listVars, viewVars, logVars, connectVars, restVars>>
    \/ NewManager /\ UNCHANGED <<tabVars, filterVars, sshVars, listVars, viewVars, logVars, connectVars, restVars>>

SpecConn == InitC /\ [][NextConn]_vars

\* connects from the three views of a fresh installation, under every terminal
\* integration, and the ends of the external commands
InitK == InitTab /\ FilterIdle /\ SshIdle /\ ListIdle /\ ViewsIdle /\ LogIdle /\ InitConn
         /\ favorites_file = NoFile /\ InitConnect /\ RestIdle

NextConnect ==
    \/ \E data \in RecordedConnections, available \in BOOLEAN, code \in {0, 1} :
          SshConnect(data, available, code)
          /\ UNCHANGED <<tabVars, filterVars, sshVars, listVars, viewVars, logVars, restVars>>
    \/ SshConnect(NoAddress, TRUE, 0)
          /\ UNCHANGED <<tabVars, filterVars, sshVars, listVars, viewVars, logVars, restVars>>
    \/ \E available \in BOOLEAN, code \in {0, 1} :
          QuickConnect(available, code)
          /\ UNCHANGED <<tabVars, filterVars, sshVars, listVars, viewVars, logVars, restVars>>
    \/ \E available \in BOOLEAN, code \in {0, 1} :
          DockerConnect(available, code)
          /\ UNCHANGED <<tabVars, filterVars, sshVars, listVars, viewVars, logVars, connVars,
                       restVars>>
    \/ SwarmConnect
          /\ UNCHANGED <<tabVars, filterVars, sshVars, listVars, viewVars, logVars, connVars,
                       restVars>>
    \/ \E o \in Outcomes :
          CommandEnds(o)
          /\ UNCHANGED <<tabVars, filterVars, sshVars, listVars, viewVars, logVars, connVars,
                       restVars>>

SpecConnect == InitK /\ [][NextConnect]_vars

\* the Tmux view: keys on its rows, texts typed into its filter field, and the
\* session's user opening windows and coming back to the window of UCM
TmuxKeys == {"c", "enter", "x", "r"}

InitT == InitTab /\ FilterIdle /\ SshIdle /\ ListIdle /\ ViewsIdle /\ LogIdle /\ ConnIdle
         /\ ConnectIdle /\ InitTmux /\ SettingsIdle /\ DockerIdle

NextTmux ==
    \/ \E key \in TmuxKeys, r \in 1..(MaxWindow + 1), fails \in BOOLEAN, survives \in BOOLEAN :
          TmuxKey(key, r, fails, survives)
          /\ UNCHANGED <<tabVars, filterVars, sshVars, listVars, viewVars, logVars, connVars,
                         connectVars, settingsVars, dockerVars>>
    \/ \E key \in {"c", "x"}, data \in {NoneRecord, NoIndexRecord} :
          TmuxCall(key, data)
          /\ UNCHANGED <<tabVars, filterVars, sshVars, listVars, viewVars, logVars, connVars,
                         connectVars, settingsVars, dockerVars>>
    \/ \E text \in TmuxTexts :
          TmuxType(text)
          /\ UNCHANGED <<tabVars, filterVars, sshVars, listVars, viewVars, logVars, connVars,
                         connectVars, settingsVars, dockerVars>>
    \/ ReturnToUcm
          /\ UNCHANGED <<tabVars, filterVars, sshVars, listVars, viewVars, logVars, connVars,
                         connectVars, settingsVars, dockerVars>>
    \/ \E w \in WindowIndexes :
          NewWindow(w)
          /\ UNCHANGED <<tabVars, filterVars, sshVars, listVars, viewVars, logVars, connVars,
                         connectVars, settingsVars, dockerVars>>

SpecTmux == InitT /\ [][NextTmux]_vars

\* the settings manager: its setters in any order, and managers made anew
InitG == InitTab /\ FilterIdle /\ SshIdle /\ ListIdle /\ ViewsIdle /\ LogIdle /\ ConnIdle
         /\ ConnectIdle /\ TmuxIdle /\ InitSettings /\ DockerIdle

NextSettings ==
    \/ \E mode \in Modes :
          SetTerminalIntegration(mode)
          /\ UNCHANGED <<tabVars, filterVars, sshVars, listVars, viewVars, logVars, connVars,
                         connectVars, tmuxVars, dockerVars>>
    \/ \E value \in {True, False} :
          SetAutoName(value)
          /\ UNCHANGED <<tabVars, filterVars, sshVars, listVars, viewVars, logVars, connVars,
                         connectVars, tmuxVars, dockerVars>>
    \/ ResetToDefaults
          /\ UNCHANGED <<tabVars, filterVars, sshVars, listVars, viewVars, logVars, connVars,
                         connectVars, tmuxVars, dockerVars>>
    \/ NewSettingsManager
          /\ UNCHANGED <<tabVars, filterVars, sshVars, listVars, viewVars, logVars, connVars,
                         connectVars, tmuxVars, dockerVars>>

SpecSettings == InitG /\ [][NextSettings]_vars

\* keys in the Docker view and the buttons of the dialogs they open
InitDk == InitTab /\ FilterIdle /\ SshIdle /\ ListIdle /\ ViewsIdle /\ LogIdle /\ ConnIdle
          /\ ConnectIdle /\ TmuxIdle /\ SettingsIdle /\ InitDocker

NextDocker ==
    \/ \E key \in DockerKeys, code \in {0, 1} :
          DockerKey(key, code)
          /\ UNCHANGED <<tabVars, filterVars, sshVars, listVars, viewVars, logVars, connVars,
                         connectVars, tmuxVars, settingsVars>>
    \/ \E exitcode \in {0, 1}, code \in {0, 1} :
          DialogButton(exitcode, code)
          /\ UNCHANGED <<tabVars, filterVars, sshVars, listVars, viewVars, logVars, connVars,
                         connectVars, tmuxVars, settingsVars>>

SpecDocker == InitDk /\ [][NextDocker]_vars


(***************************************************************************)
(* Properties of the focus chain                                           *)
(***************************************************************************)
\* one advance along next: the chain node whose current the node's next is
StepFrom(n) == IF n = NoNode THEN NoNode ELSE NodeOf(next[n])

RECURSIVE WalkFrom(_, _)
WalkFrom(n, k) == IF k = 0 THEN n ELSE WalkFrom(StepFrom(n), k - 1)

\* C1: chain circularity. After any sequence of register calls, walking next
\* from any node of the chain comes back to that node after exactly N steps, N
\* the number of nodes of all groups, and not before; a single node links to
\* itself.
C1_ChainCircular ==
    LET N == Len(Chain)
    IN  \A i \in 1..N :
            /\ WalkFrom(Chain[i], N) = Chain[i]
            /\ \A k \in 1..(N - 1) : WalkFrom(Chain[i], k) # Chain[i]
            /\ (N = 1 => next[Chain[i]] = current[Chain[i]])

\* the four groups of a whole view registered, seven nodes, after a view switch
C1_Witness ==
    /\ lastOp = "view_changed"
    /\ raised = ""
    /\ Len(Chain) = 7
    /\ Len(keys) = 4

SuccIn(chain, n) ==
    LET i == CHOOSE j \in DOMAIN chain : chain[j] = n
    IN  chain[(i % Len(chain)) + 1]

\* C3: view-switch isolation. Registering "list" and "filters_select" again on
\* a view switch alters the next of no node of "view_select" or
\* "action_buttons", except the boundary links: those of the nodes that are
\* followed by the replaced segment, before or after the switch.
C3_ViewSwitchIsolation ==
    [][lastOp' = "view_changed" =>
        LET stable == Range(groups["view_select"]) \cup Range(groups["action_buttons"])
            bodyOld == Range(groups["list"]) \cup Range(groups["filters_select"])
            bodyNew == Range(groups'["list"]) \cup Range(groups'["filters_select"])
            changed == {n \in stable : next'[n] # next[n]}
        IN  /\ groups'["view_select"] = groups["view_select"]
            /\ groups'["action_buttons"] = groups["action_buttons"]
            /\ Cardinality(changed) <= 2
            /\ \A n \in changed :
                  \/ SuccIn(Chain, n) \in bodyOld
                  \/ SuccIn(Chain', n) \in bodyNew]_vars

\* back on view A after view C: the header and footer groups are registered and
\* both body groups were replaced by nodes of another view
C3_Witness ==
    /\ lastOp = "view_changed"
    /\ view = "A"
    /\ groups["list"] = <<3>>
    /\ groups["filters_select"] = <<4>>
    /\ ~current[5].isNone
    /\ ~current[6].isNone
    /\ groups["view_select"] = <<1, 2>>
    /\ groups["action_buttons"] = <<7, 8, 9>>

\* the focus nodes of a widget: the items of its contents that have set_current,
\* or the widget itself when it has set_current
FocusNodes(w) ==
    IF HasContents(w) THEN SelectSeq(Contents(w), LAMBDA x : x # NoNode)
    ELSE IF SelfNode(w) # NoNode THEN <<SelfNode(w)>> ELSE <<>>

\* C5: register stores under the name exactly the focus nodes of the widget it
\* is given, so after a view switch the "list" and "filters_select" groups hold
\* the nodes of the view now shown and no node of the previous view.
C5_ViewSwitchReplacesBody ==
    lastOp = "view_changed" =>
        /\ groups["list"] = FocusNodes(ListOf(view))
        /\ groups["filters_select"] = FocusNodes(FilterOf(view))

\* C6: registering a group with zero focus nodes never fails, also when every
\* registered group is empty.
C6_RegisterNeverFails == raised = ""


(***************************************************************************)
(* Properties of navigation                                                *)
(***************************************************************************)
\* the region of a node's descriptor can be given focus: it has set_focus or a walker
Capable(d) ==
    /\ d.container # NoneRef
    /\ d.container_pos >= 0
    /\ (HasSetFocus(d.container) \/ HasWalker(d.container))

\* k presses of the navigation key, the first on node n with the focus
\* positions pos, each later one on the node the press before moved focus to:
\* the node that has focus in the end and the positions then
RECURSIVE Presses(_, _, _)
Presses(n, k, pos) ==
    IF k = 0 \/ n = NoNode THEN [node |-> n, pos |-> pos]
    ELSE LET r == focus_next(next[n], pos.frame_focus, pos.pile_focus, pos.cfocus)
         IN  Presses(IF r.moved THEN NodeOf(next[n]) ELSE NoNode, k - 1,
                     [frame_focus |-> r.frame_focus, pile_focus |-> r.pile_focus,
                      cfocus |-> r.cfocus])

C7_IncapableAdvanceMovesNothing ==
    [][(lastOp' = "tab" /\ "no handling enabled" \in Range(logged')) =>
          /\ raised' = ""
          /\ frame_focus' = frame_focus
          /\ pile_focus' = pile_focus
          /\ cfocus' = cfocus]_vars

\* C8: registering a group, also the one that holds focus, changes no focus
\* position of the frame, of a pile or of a container.
C8_RegisterKeepsFocus ==
    [][lastOp' = "add" =>
          /\ frame_focus' = frame_focus
          /\ pile_focus' = pile_focus
          /\ cfocus' = cfocus]_vars

\* focus was moved to the last footer button, and the footer group was then
\* registered again with another widget
C8_Witness ==
    /\ lastOp = "add"
    /\ frame_focus = "footer"
    /\ cfocus["action_content"] = 2
    /\ groups["action_buttons"] = <<10>>
    /\ ~current[9].isNone

(***************************************************************************)
(* Properties of the filter                                                *)
(***************************************************************************)
\* a text made of whitespace only (the empty text included)
Blank(s) == \A i \in DOMAIN s : IsSpace(s[i])

\* some listed field is present in the record and its value contains q,
\* letter case ignored
SomeFieldContains(fields, q, record) ==
    \E j \in DOMAIN fields :
        /\ record[fields[j]].kind = "str"
        /\ Contains(lower(record[fields[j]].v), lower(q))

\* C9: filter correctness. For a single record R, the filtered list contains R
\* iff the query is empty (blank, which is what the filter treats as empty) or
\* some field of filter_fields is present in R and its value contains the query
\* as a case-insensitive substring.
C9_FilterCorrectness ==
    (~fetch_data.isNone /\ Len(fetch_data.items) = 1 /\ ~filter_string.isNone) =>
        LET R == fetch_data.items[1]
        IN  /\ filtered.raised = ""
            /\ (R \in Range(filtered.items)) <=>
                  \/ Blank(filter_string.s)
                  \/ SomeFieldContains(filter_fields, filter_string.s, R)

\* C10: with an empty or whitespace-only query the filter returns the fetched
\* records unchanged, all of them, in the same order.
C10_BlankQueryReturnsAll ==
    (~filter_string.isNone /\ Blank(filter_string.s)) =>
        /\ filtered.raised = ""
        /\ filtered.isNone = fetch_data.isNone
        /\ filtered.items = fetch_data.items

\* a query of one space on two different records, the second of which holds no
\* space in any listed field
C10_Witness ==
    /\ filter_string = Query(<<" ">>)
    /\ filter_fields = <<"name", "address">>
    /\ ~fetch_data.isNone
    /\ Len(fetch_data.items) = 2
    /\ fetch_data.items[1].name = Text(<<"a", " ", "B">>)
    /\ fetch_data.items[2].name = Text(<<"A", "b">>)
    /\ filtered.items = fetch_data.items

(***************************************************************************)
(* Properties of the SSH view's filter                                     *)
(***************************************************************************)
\* a filter outcome handed back as the record source
AsData(r) == [isNone |-> r.isNone, items |-> r.items]

\* filtering what a filter returned; a filter that raised has returned nothing,
\* and filtering its outcome raises the same
Again(r, fav_only, by_recent) ==
    IF r.raised # "" THEN r
    ELSE SshListView_filter_data(AsData(r), filter_fields, filter_string,
                                 fav_only, by_recent, favorites, history)

\* C11: filter idempotence. For every record sequence and filter state (text,
\* fields, favourites-only, recently-used sort), filtering the filtered records
\* again gives the filtered records: for ListView.filter_data and for
\* SshListView.filter_data.
C11_FilterIdempotent ==
    /\ Again(ssh_filtered, favorites_only, sort_by_recent) = ssh_filtered
    /\ (filtered.raised = "" =>
            filter_data(AsData(filtered), filter_fields, filter_string) = filtered)

\* both modes on and a text typed: two records were kept, and the sort changed
\* their order
C11_Witness ==
    /\ favorites_only /\ sort_by_recent
    /\ ~Blank(filter_string.s)
    /\ ssh_filtered.raised = ""
    /\ Len(ssh_filtered.items) = 2
    /\ Len(fetch_data.items) = 2
    /\ ssh_filtered.items # fetch_data.items

(***************************************************************************)
(* Properties of the list widget                                           *)
(***************************************************************************)
\* the place in the record source of the dict with identity i
ItemData(i) == (CHOOSE k \in DOMAIN fetch_data.items : fetch_data.items[k].id = i)

\* the dicts of the filtered set, in order
FilteredIds == [k \in 1..Len(filtered.items) |-> filtered.items[k].id]

\* a set_query that went through: filter_and_set returned
AfterSetQuery == listOp = "set_query" /\ error = ""

\* C12: after set_query(text) with a non-empty filtered set, the focused index
\* is 0 and the selection is the record at position 0 of the new filtered set,
\* whatever was focused or selected before.
C12_SetQuerySelectsFirst ==
    (AfterSetQuery /\ filtered.items # <<>>) =>
        /\ walker = FilteredIds
        /\ walker_focus = 0
        /\ selected = walker[1]

\* the text "aB" kept the second record only: it is focused and selected, where
\* the first record was before
C12_Witness ==
    /\ AfterSetQuery
    /\ filter_string = Query(<<"a", "B">>)
    /\ walker = <<2>>
    /\ walker_focus = 0
    /\ selected = 2

\* C13: after set_query(text) with an empty filtered set, nothing is focused and
\* the selection is None: no record of an earlier filtered set stays selected.
C13_EmptySetSelectsNothing ==
    (AfterSetQuery /\ filtered.items = <<>>) =>
        /\ walker = <<>>
        /\ get_focus(ListState) = NoItem
        /\ selected = NoItem

\* C14: with an empty filtered set, a release event never runs the
\* double-click action on a record and raises no error.
C14_EmptySetDoubleClickIsNoOp ==
    (listOp = "release" /\ walker = <<>>) => (~fired /\ error = "")

\* C15: index integrity. Every ListItem's index is its position in the filtered
\* set, from 0, without gaps.
C15_IndexIntegrity ==
    \A p \in 1..Len(walker) :
        LET item_data == fetch_data.items[ItemData(walker[p])]
        IN  /\ item_data.index.kind = "int"
            /\ item_data.index.v = p - 1

\* two records had the indexes 0 and 1; the text "aB" kept the second, which
\* now has index 0
C15_Witness ==
    /\ AfterSetQuery
    /\ filter_string = Query(<<"a", "B">>)
    /\ Len(fetch_data.items) = 2
    /\ walker = <<2>>
    /\ fetch_data.items[2].index = IntValue(0)

\* C16: the rebuild inside set_query is not observable. Every record_selected
\* call that set_query causes comes when the new items are all in place, and
\* carries an item of the new set.
C16_RebuildNotObservable ==
    (listOp \in {"init", "set_query"} /\ error = "") =>
        \A n \in DOMAIN notified :
            /\ notified[n].walker = walker
            /\ notified[n].item \in Range(walker)

\* a set_query that replaced two items by one, and notified once, of that one
C16_Witness ==
    /\ AfterSetQuery
    /\ Len(fetch_data.items) = 2
    /\ walker = <<2>>
    /\ notified = <<[item |-> 2, walker |-> <<2>>]>>

\* a step of MouseRelease: a release was handled, at the time now
IsRelease == listOp' = "release" /\ now' = now

\* C17: double-click threshold. A release event runs the double-click action
\* iff its time less last_time_clicked is strictly under 0.5 s: 0.4 s apart
\* fires, 0.5 s and 0.6 s apart do not.
C17_DoubleClickThreshold ==
    [][IsRelease => (fired' <=> (now - last_time_clicked < DoubleClickTime))]_vars

\* a release 0.5 s after the list was built did not fire, and the release 0.4 s
\* after that one fired
C17_Witness ==
    /\ listOp = "release"
    /\ error = ""
    /\ fired
    /\ streak = 1
    /\ now = StartTime + DoubleClickTime + 4
    /\ last_time_clicked = now

\* C18: every release event that is handled sets last_time_clicked to its own
\* time, fired or not, and no other event changes it; so in a run of releases,
\* each under 0.5 s after the one before, every release after the first fires.
C18_ReleaseUpdatesTime ==
    [][/\ (IsRelease /\ error' = "") => last_time_clicked' = now
       /\ ~IsRelease => last_time_clicked' = last_time_clicked
       /\ (IsRelease /\ listOp = "release"
             /\ now - last_time_clicked < DoubleClickTime) => fired']_vars

\* a release that did not fire, then two that fired, one after the other
C18_Witness ==
    /\ listOp = "release"
    /\ error = ""
    /\ streak = 2
    /\ now > StartTime + DoubleClickTime
    /\ last_time_clicked = now

\* C19: whenever the double-click action runs, it acts on the focused record,
\* the record at the focused index of the current filtered set.
C19_DoubleClickActsOnFocused ==
    (listOp = "release" /\ fired /\ error = "") =>
        /\ walker # <<>>
        /\ acted = get_focus(ListState)

\* C20: two release events under 0.5 s apart that land on different items of
\* the list are no double click.
C20_DifferentItemsNoDoubleClick ==
    [][(IsRelease /\ listOp = "release" /\ landed # NoItem /\ landed' # NoItem
          /\ landed' # landed) => ~fired']_vars

\* C23: a record source that returned None or an empty sequence means no data:
\* for any query text, also a non-empty one, set_query yields an empty list and
\* raises nothing.
C23_NoDataIsNotAnError ==
    (listOp = "set_query" /\ (fetch_data.isNone \/ fetch_data.items = <<>>)) =>
        (error = "" /\ walker = <<>>)

(***************************************************************************)
(* Properties of the views                                                 *)
(***************************************************************************)
\* filters_clear has just run (view_changed is its one caller)
AfterFiltersClear == lastOp = "view_changed" /\ listOp = "filters_clear"

\* the list shows every record of the source, in the source's order
SourceIds == [k \in 1..Len(fetch_data.items) |-> fetch_data.items[k].id]
ListUnfiltered == walker = SourceIds

\* C21: after clear_filter the query is the empty string, the list holds every
\* fetched record, and the input focus is on the list region (the frame's
\* body, the list row of the view's pile), not on the filter field.
C21_ClearFilterFocusesList ==
    AfterFiltersClear =>
        /\ filter_string = Query(<<>>)
        /\ ListUnfiltered
        /\ frame_focus = "body"
        /\ pile_focus[PileOf(ListOf(view))] = ListRow

\* C22: on every view change the filter of the view now shown is cleared: its
\* filter text is empty and its list unfiltered, whatever text the view had
\* when it was last shown.
C22_ViewChangeClearsFilter ==
    AfterFiltersClear =>
        /\ filter_string = Query(<<>>)
        /\ filtered.raised = ""
        /\ FilteredIds = SourceIds
        /\ ListUnfiltered

\* the view shown again had the text "aB" and one record listed when it was
\* hidden; now its text is empty and both records are listed
C22_Witness ==
    /\ AfterFiltersClear
    /\ views[view].filter_string = Query(<<"a", "B">>)
    /\ views[view].walker = <<2>>
    /\ filter_string = Query(<<>>)
    /\ walker = <<1, 2>>

(***************************************************************************)
(* Properties of the container-log dialog                                  *)
(***************************************************************************)
\* C24 as stated: while paused no poll is pending, and after every resume a
\* poll is pending.
C24_ResumeAlwaysSchedules ==
    /\ paused => alarms = {}
    /\ logOp = "resume" => alarms # {}

\* C24: log polling is a one-shot alarm that is set again only while not
\* paused: at most one poll is pending, none while paused (also after Apply
\* restarted the stream while paused), and a resume leaves exactly one poll
\* pending, the one log_state names, whenever a log process was ever started.
C24_PollingOnlyWhileNotPaused ==
    /\ Cardinality(alarms) <= 1
    /\ paused => alarms = {}
    /\ (logOp = "resume" /\ log_process # NoProcess) =>
          (alarm_handle # NoHandle /\ alarms = {alarm_handle})

\* the stream was restarted while paused and nothing is pending
C24_WitnessApplyWhilePaused ==
    /\ logOp = "apply"
    /\ paused
    /\ log_process = "running"
    /\ alarms = {}
    /\ alarm_count > 0

(***************************************************************************)
(* Properties of the connection manager                                    *)
(***************************************************************************)
\* the reading of the clock that an entry's last_used was written at
UsedAt(entry) == DecimalValue(SubSeq(entry.last_used.v, Len(DatePart) + 2, Len(DatePart) + 4), 0)

\* C26: get_history lists the connections in order of most recent use first,
\* also after a connection already in the history was recorded again.
C26_MostRecentFirst ==
    LET h == get_history(_history, HistoryLimit)
    IN  \A i, j \in DOMAIN h : i < j => UsedAt(h[i]) > UsedAt(h[j])

\* the limits get_history is called with
Limits == {0, 1, 10, HistoryLimit - 1, HistoryLimit, 10 * HistoryLimit}

\* C27: the history never holds more than 100 entries, and get_history(limit)
\* never returns more than limit entries.
C27_HistoryLimited ==
    /\ Len(_history) <= HistoryLimit
    /\ \A limit \in Limits : Len(get_history(_history, limit)) <= limit

\* a recording has just cut the oldest entry off a full history
C27_Witness ==
    /\ cmOp = "record"
    /\ truncated
    /\ Len(_history) = HistoryLimit
    /\ Len(recordings) > HistoryLimit
    /\ Len(get_history(_history, 10)) = 10

\* how often an id was recorded since the history was empty
TimesRecorded(id) == Cardinality({i \in DOMAIN recordings : recordings[i] = id})

\* C28: the history holds at most one entry per connection (name and
\* address); while no entry has been cut off, every entry's use_count is the
\* number of times its connection was recorded since the history was empty,
\* and get_stats' total_uses is the number of recordings.
C28_OneEntryPerConnection ==
    /\ \A i, j \in DOMAIN _history :
          i # j => (_history[i].name # _history[j].name
                    \/ _history[i].address # _history[j].address)
    /\ ~truncated =>
          /\ \A i \in DOMAIN _history :
                get_use_count(_history[i]) = TimesRecorded(_connection_id(_history[i]))
          /\ get_stats(_history, _favorites).total_uses = Len(recordings)

\* one connection recorded twice from an empty history: one entry, use_count 2
C28_Witness ==
    /\ cmOp = "record"
    /\ Len(recordings) = 2
    /\ recordings[1] = recordings[2]
    /\ Len(_history) = 1
    /\ get_use_count(_history[1]) = 2
    /\ get_stats(_history, _favorites).total_uses = 2

\* C29: toggle_favorite flips the status of exactly the connection given and
\* returns the new status: is_favorite of it is then what was returned, a
\* second toggle would restore the favourites, and the status of every
\* connection with another name or another address is unchanged.
C29_ToggleFlipsOnlyGiven ==
    [][cmOp' = "toggle" =>
        /\ returned' = ~cm_is_favorite(_favorites, arg')
        /\ cm_is_favorite(_favorites', arg') = returned'
        /\ Range(toggle_favorite(_favorites', arg').favorites) = Range(_favorites)
        /\ \A d \in ToggledConnections \cup RecordedConnections :
              (d.name # arg'.name \/ d.address # arg'.address) =>
                  cm_is_favorite(_favorites', d) = cm_is_favorite(_favorites, d)]_vars

\* two values are the same Python value: the same type and the same content
\* two histories hold the same entries in the same order
SameHistory(g, h) ==
    /\ Len(g) = Len(h)
    /\ \A i \in DOMAIN g :
          /\ DOMAIN g[i] = DOMAIN h[i]
          /\ \A k \in DOMAIN g[i] : SameValue(g[i][k], h[i][k])

C25_ScreenParkedAndResumed ==
    /\ blocked # "no" => screen = "stopped"
    /\ blocked = "no" => screen = "started"

(***************************************************************************)
(* Properties of the first release                                         *)
(***************************************************************************)
\* C38: double activation needs two activation events: a release that is the
\* first event the list receives after its construction never calls the
\* double-click callback, however soon it arrives.
C38_FirstReleaseNeverFires ==
    [][(listOp = "init" /\ listOp' = "release") => ~fired']_vars

(***************************************************************************)
(* Properties of the poll alarm                                            *)
(***************************************************************************)
\* C39: for one container-log dialog at most one poll alarm is pending at any
\* time, whatever the order of timer firings, Apply, Pause and Resume; once the
\* dialog is closed no poll alarm is pending and none is scheduled again.
C39_OnePollAlarm ==
    [][/\ Cardinality(alarms) <= 1
       /\ Cardinality(alarms') <= 1
       /\ ~log_open' => alarms' = {}
       /\ ~log_open => alarm_count' = alarm_count]_vars

\* the dialog was closed while it polled a stream that had been started again
C39_Witness ==
    /\ ~log_open
    /\ logOp = "close"
    /\ ~paused
    /\ alarm_handle # NoHandle
    /\ alarm_count >= 3
    /\ log_process = "terminated"
    /\ alarms = {}

(***************************************************************************)
(* Properties of the Tmux view                                             *)
(***************************************************************************)
\* C31: close_window never kills the active tmux window, the one running UCM.
C31_NeverKillsActiveWindow ==
    ~(tmux_call.cmd = "kill-window" /\ tmux_call.target = ucm_window /\ tmux_call.rc = 0)

\* the rows filter_and_set(text) builds from the session as it is
RowsNow(ws, active, text) ==
    LET data == filter_data(tmux_fetch_data(ws, active), <<"name", "index">>, text)
    IN  ListItems(data.items, data.items, 0)

\* C32: switch_to_window and close_window run the filter again, with the text
\* of the filter field, exactly when the tmux command returned 0, and the list
\* is then rebuilt from the session as it is; when the command returned
\* another code, or was not run, the list is not rebuilt.
C32_RefreshExactlyOnSuccess ==
    [][(tmuxOp' \in {"switch", "close"} /\ tmux_error' # "killed") =>
        /\ tmux_refreshed'.called <=> (tmux_call'.cmd # "none" /\ tmux_call'.rc = 0)
        /\ tmux_refreshed'.called => tmux_refreshed'.text = tmux_edit_text
        /\ (tmux_refreshed'.called /\ tmux_error' = "") =>
              tmux_walker' = RowsNow(tmux_windows', tmux_active', tmux_edit_text)
        /\ ~tmux_refreshed'.called => tmux_walker' = tmux_walker]_vars

\* a switch that tmux carried out, with a text in the filter field: the list
\* was built again and flags the window switched to as the active one
C32_Witness ==
    /\ tmuxOp = "switch"
    /\ tmux_call.rc = 0
    /\ tmux_refreshed = [called |-> TRUE, text |-> Query(<<"a">>)]
    /\ tmux_edit_text = Query(<<"a">>)
    /\ tmux_error = ""
    /\ tmux_active # ucm_window
    /\ \E r \in DOMAIN tmux_walker : tmux_walker[r].active /\ tmux_walker[r].id = tmux_active

\* C36: switching to or closing a row calls the tmux service with the window
\* index list_windows reported for that row's window, never with the display
\* position the list wrote into the row's dict.
C36_CallsWithOwnIndex ==
    (tmuxOp \in {"switch", "close"} /\ tmux_call.cmd # "none") => tmux_call.target = tmux_row

\* C33: set_terminal_integration validates its input: a mode other than "none",
\* "tmux" or "iterm2" raises ValueError and leaves _settings and config.yml as
\* they were; a valid mode raises nothing, is what get_terminal_integration
\* returns afterwards, and is what config.yml holds
C33_ModeValidated ==
    [][settingsOp' = "set_terminal_integration" =>
         IF settings_mode' \in {ModeNone, ModeTmux, ModeIterm2}
         THEN /\ settings_raised' = ""
              /\ get_terminal_integration(_settings') = Text(settings_mode')
              /\ safe_load_settings(settings_file') = _settings'
         ELSE /\ settings_raised' = "ValueError"
              /\ _settings' = _settings
              /\ settings_file' = settings_file]_vars
\* "Tmux" was refused after "iterm2" had been stored
C33_Witness ==
    /\ settingsOp = "set_terminal_integration"
    /\ settings_mode = <<"T", "m", "u", "x">>
    /\ settings_raised = "ValueError"
    /\ get_terminal_integration(_settings) = Text(ModeIterm2)
    /\ get_terminal_integration(safe_load_settings(settings_file)) = Text(ModeIterm2)

\* the five settings the defaults are said to hold
StatedDefaults ==
    {Node(<<"terminal", "integration">>, Text(ModeNone)),
     Node(<<"terminal", "tmux", "mode">>, Text(<<"w", "i", "n", "d", "o", "w">>)),
     Node(<<"terminal", "tmux", "auto_name">>, True),
     Node(<<"terminal", "iterm2", "new_tab">>, True),
     Node(<<"terminal", "iterm2", "profile">>, Text(<<"D", "e", "f", "a", "u", "l", "t">>))}

\* C34: after a first initialization, after reset_to_defaults and after a load
\* of config.yml, each of the five stated settings has its default value unless
\* the file gave that key
C34_DefaultsComplete ==
    settingsOp \in {"init", "reset_to_defaults", "new"} =>
      \A n \in StatedDefaults :
        \/ n \in _settings
        \/ /\ settingsOp # "reset_to_defaults"
           /\ KindAt(safe_load_settings(settings_file), n.path) # "missing"
           /\ KindAt(_settings, n.path) # "missing"

\* C35: whenever 'L' can be pressed and the connection whose record_connection
\* call was the latest is in the configuration, _connect_to_last_used hands
\* that connection to connect
C35_QuickConnectsLatest ==
    (/\ blocked = "no"
     /\ uncaught = ""
     /\ recordings # <<>>
     /\ \E i \in DOMAIN Configured :
           _connection_id(Configured[i]) = recordings[Len(recordings)]) =>
      LET r == _connect_to_last_used(_history, Configured)
      IN  r.found /\ _connection_id(r.conn) = recordings[Len(recordings)]

\* C37: a key the per-row handler acted on is consumed by the row: it is not
\* given to the unhandled-input handler as well
C37_ActedKeyConsumed == (dockerOp = "key" /\ row_acted # "") => unhandled_key = ""

====
